---- MODULE Spec2Model ----
(***************************************************************************)
(* State-machine model of the product catalog's two zustand stores         *)
(* (src/src/store/cartStore.js, the wishlist store in src/unnamed/part_003) *)
(* and of the persist middleware they are created with.                     *)
(*                                                                         *)
(* JavaScript objects are functions from property names to values; an      *)
(* absent property and a property holding undefined are different objects   *)
(* that read the same.  Arrays are sequences (1-based).                     *)
(*                                                                         *)
(* The search utilities (src/src/utils/price-formatter.js) and the         *)
(* useSearch hook (src/src/hooks/useSearch.js) run on a model of the       *)
(* JavaScript event loop: a clock and the set of pending timeouts.         *)
(***************************************************************************)
EXTENDS Integers, Sequences, FiniteSets, TLC

VARIABLES cart, localStorage, session, pc, call, wishlist, loop, closure, log

vars == <<cart, localStorage, session, pc, call, wishlist, loop, closure, log>>

\* the stores and their caller; the event loop, the closures over it and the
\* record of what ran
storeVars == <<cart, localStorage, session, pc, call, wishlist>>
timerVars == <<loop, closure, log>>

(***************************************************************************)
(* Bounds of the model                                                     *)
(***************************************************************************)
MaxQty == 2       \* largest quantity a cart line is followed to
MaxDebt == 1      \* cart lines are followed down to quantity -MaxDebt
MaxArg == 2       \* quantity / amount arguments range over -MaxArg..MaxArg
MaxBulk == 2      \* longest argument list of a bulk operation
MaxSessions == 1  \* process restarts followed in the persistence model

QtyArgs == (0 - MaxArg)..MaxArg

(***************************************************************************)
(* JavaScript values                                                       *)
(***************************************************************************)
Undefined == "undefined"

\* { ...a, ...b }: own properties of a, overridden by the own properties of b
\* (a property of b holding undefined overrides too).
Spread(a, b) ==
  [k \in (DOMAIN a) \cup (DOMAIN b) |-> IF k \in DOMAIN b THEN b[k] ELSE a[k]]

\* Item ids are numbers or strings (typedef CartItem.id: string|number).
\* "n1", "n2" stand for the numbers 1, 2 and "s1" for the string "1";
\* === on ids is equality of these names.
Ids == {"n1", "s1", "n2"}

\* String(id): the property key an id becomes when used as an object key.
ToKey(id) == IF id = "n2" THEN "2" ELSE "1"

\* The id an object key has when read back with Object.entries (a string).
KeyId(k) == IF k = "1" THEN "s1" ELSE "s2"

\* The products the UI offers: each id has one price.
PriceOf(id) == IF id = "n1" THEN 2 ELSE IF id = "s1" THEN 3 ELSE 5

Products == {[id |-> i, price |-> PriceOf(i)] : i \in Ids}

(***************************************************************************)
(* Cart store: createCartStore(config)                                     *)
(***************************************************************************)
DefaultCart == "default-cart"
CustomCart == "my-custom-cart"
CartNames == {DefaultCart, CustomCart}

\* config.defaultItem of useCartStore (title, image, metadata are opaque here)
defaultItem == [id |-> "", price |-> 0, quantity |-> 1]

initialState ==
  [items |-> <<>>, totalItems |-> 0, totalPrice |-> 0, isEmpty |-> TRUE]

\* items.reduce((total, item) => total + f(item), 0)
RECURSIVE reduceSum(_, _, _)
reduceSum(items, i, byPrice) ==
  IF i = 0 THEN 0
  ELSE reduceSum(items, i - 1, byPrice)
       + (IF byPrice THEN items[i].price * items[i].quantity
          ELSE items[i].quantity)

calculateTotals(items) ==
  [totalItems |-> reduceSum(items, Len(items), FALSE),
   totalPrice |-> reduceSum(items, Len(items), TRUE),
   isEmpty |-> (Len(items) = 0)]

\* Array.prototype.findIndex on the id; 0 stands for JavaScript's -1.
findIndex(items, id) ==
  IF \E i \in 1..Len(items) : items[i].id = id
  THEN CHOOSE i \in 1..Len(items) :
         /\ items[i].id = id
         /\ \A j \in 1..(i - 1) : items[j].id # id
  ELSE 0

\* the object a set() updater returns: { items: updatedItems, ...calculateTotals(updatedItems) }
withTotals(updatedItems) ==
  Spread([items |-> updatedItems], calculateTotals(updatedItems))

\* zustand set(partial): Object.assign({}, state, partial)
setState(state, partial) == Spread(state, partial)

\* item.quantity || 1
quantityOr1(item) ==
  IF "quantity" \in DOMAIN item /\ item.quantity # 0 THEN item.quantity ELSE 1

\* addItem whose existing-line branch returns the items without the totals
addItemStaleTotals(state, item, quantity) ==
  LET existingItemIndex == findIndex(state.items, item.id) IN
  IF existingItemIndex > 0
  THEN setState(state,
         [items |-> [state.items EXCEPT ![existingItemIndex] =
                       Spread(@, [quantity |-> @.quantity + quantity])]])
  ELSE setState(state,
         withTotals(Append(state.items,
           Spread(Spread(defaultItem, item), [quantity |-> quantity]))))

\* addItem whose existing-line branch assigns the quantity (= instead of +=)
addItemOverwrites(state, item, quantity) ==
  LET existingItemIndex == findIndex(state.items, item.id) IN
  IF existingItemIndex > 0
  THEN setState(state, withTotals(
         [state.items EXCEPT ![existingItemIndex] =
            Spread(@, [quantity |-> quantity])]))
  ELSE setState(state, withTotals(
         Append(state.items,
           Spread(Spread(defaultItem, item), [quantity |-> quantity]))))

\* The state after addItem(item, quantity).  In the existing-line branch the
\* code assigns into the item object that the previous state's array holds
\* too (updatedItems is a shallow copy); what is modelled here is the state
\* that set() installs.
addItemState(state, item, quantity) ==
  LET existingItemIndex == findIndex(state.items, item.id) IN
  IF existingItemIndex > 0
  THEN LET updatedItems ==
             [state.items EXCEPT ![existingItemIndex] =
                Spread(@, [quantity |-> @.quantity + quantity])]
       IN setState(state, withTotals(updatedItems))
  ELSE LET newItem == Spread(Spread(defaultItem, item), [quantity |-> quantity])
           updatedItems == Append(state.items, newItem)
       IN setState(state, withTotals(updatedItems))

\* The state after removeItem(itemId)
removeItemState(state, itemId) ==
  LET keep(item) == item.id # itemId
      updatedItems == SelectSeq(state.items, keep)
  IN setState(state, withTotals(updatedItems))

\* updateQuantity that adds the quantity to the line instead of setting it
updateQuantityAdditive(state, itemId, quantity) ==
  IF quantity <= 0
  THEN removeItemState(state, itemId)
  ELSE setState(state, withTotals(
         [i \in 1..Len(state.items) |->
            IF state.items[i].id = itemId
            THEN Spread(state.items[i],
                        [quantity |-> state.items[i].quantity + quantity])
            ELSE state.items[i]]))

\* The state after updateQuantity(itemId, quantity)
updateQuantityState(state, itemId, quantity) ==
  IF quantity <= 0
  THEN removeItemState(state, itemId)
  ELSE LET updatedItems ==
             [i \in 1..Len(state.items) |->
                IF state.items[i].id = itemId
                THEN Spread(state.items[i], [quantity |-> quantity])
                ELSE state.items[i]]
       IN setState(state, withTotals(updatedItems))

\* The state after incrementItem(itemId, amount)
incrementItemState(state, itemId, amount) ==
  LET updatedItems ==
        [i \in 1..Len(state.items) |->
           IF state.items[i].id = itemId
           THEN Spread(state.items[i],
                       [quantity |-> state.items[i].quantity + amount])
           ELSE state.items[i]]
  IN setState(state, withTotals(updatedItems))

\* decrementItem that removes a line only below zero (newQuantity < 0)
decrementItemKeepsZero(state, itemId, amount) ==
  LET newQuantity(item) == item.quantity - amount
      keep(item) == ~(item.id = itemId /\ newQuantity(item) < 0)
      kept == SelectSeq(state.items, keep)
  IN setState(state, withTotals(
       [i \in 1..Len(kept) |->
          IF kept[i].id = itemId
          THEN Spread(kept[i], [quantity |-> newQuantity(kept[i])])
          ELSE kept[i]]))

\* The state after decrementItem(itemId, amount): lines mapped to null are
\* dropped by filter(Boolean)
decrementItemState(state, itemId, amount) ==
  LET newQuantity(item) == item.quantity - amount
      keep(item) == ~(item.id = itemId /\ newQuantity(item) <= 0)
      kept == SelectSeq(state.items, keep)
      updatedItems ==
        [i \in 1..Len(kept) |->
           IF kept[i].id = itemId
           THEN Spread(kept[i], [quantity |-> newQuantity(kept[i])])
           ELSE kept[i]]
  IN setState(state, withTotals(updatedItems))

\* The state after clearCart()
clearCartState(state) == setState(state, initialState)

\* addMultipleItems whose lookup never finds a line: every item is pushed
RECURSIVE addMultipleAlwaysPush(_, _)
addMultipleAlwaysPush(updatedItems, items) ==
  IF items = <<>> THEN updatedItems
  ELSE addMultipleAlwaysPush(
         Append(updatedItems,
                Spread(Spread(defaultItem, Head(items)),
                       [quantity |-> quantityOr1(Head(items))])),
         Tail(items))

\* items.forEach body of addMultipleItems, folded over the argument list
RECURSIVE addMultipleFold(_, _)
addMultipleFold(updatedItems, items) ==
  IF items = <<>> THEN updatedItems
  ELSE LET item == Head(items)
           existingItemIndex == findIndex(updatedItems, item.id)
           next ==
             IF existingItemIndex > 0
             THEN [updatedItems EXCEPT ![existingItemIndex] =
                     Spread(@, [quantity |-> @.quantity + quantityOr1(item)])]
             ELSE Append(updatedItems,
                         Spread(Spread(defaultItem, item),
                                [quantity |-> quantityOr1(item)]))
       IN addMultipleFold(next, Tail(items))

\* The state after addMultipleItems(items)
addMultipleItemsState(state, items) ==
  setState(state, withTotals(addMultipleFold(state.items, items)))

\* itemIds.includes(id)
includes(itemIds, id) == \E i \in 1..Len(itemIds) : itemIds[i] = id

\* The state after removeMultipleItems(itemIds)
removeMultipleItemsState(state, itemIds) ==
  LET keep(item) == ~includes(itemIds, item.id)
  IN setState(state, withTotals(SelectSeq(state.items, keep)))

\* updates.hasOwnProperty(item.id): the id is converted to a property key
hasOwnProperty(updates, id) == ToKey(id) \in DOMAIN updates

\* The state after updateMultipleQuantities(updates)
updateMultipleQuantitiesState(state, updates) ==
  LET newQuantity(item) == updates[ToKey(item.id)]
      keep(item) == ~(hasOwnProperty(updates, item.id) /\ newQuantity(item) <= 0)
      kept == SelectSeq(state.items, keep)
      updatedItems ==
        [i \in 1..Len(kept) |->
           IF hasOwnProperty(updates, kept[i].id)
           THEN Spread(kept[i], [quantity |-> newQuantity(kept[i])])
           ELSE kept[i]]
  IN setState(state, withTotals(updatedItems))

(***************************************************************************)
(* persist middleware (createCartStore, shouldPersist branch)              *)
(***************************************************************************)
\* partialize as the wishlist store has it: no totalPrice
partializeNoPrice(state) ==
  [items |-> state.items, totalItems |-> state.totalItems,
   isEmpty |-> state.isEmpty]

\* partialize: the four data fields of the state
partialize(state) ==
  [items |-> state.items, totalItems |-> state.totalItems,
   totalPrice |-> state.totalPrice, isEmpty |-> state.isEmpty]

\* the properties of an item that can hold undefined (they hold strings)
StringProps == {"id", "category"}

\* JSON.stringify of an object leaves out the properties holding undefined
jsonObject(o) ==
  [k \in {p \in DOMAIN o : ~(p \in StringProps /\ o[p] = Undefined)} |-> o[k]]

\* JSON.stringify({ state, version }) as createJSONStorage writes it; numbers,
\* strings and booleans are written as they are
stringify(state) ==
  [state |-> [k \in DOMAIN state |->
                IF k = "items"
                THEN [i \in 1..Len(state.items) |-> jsonObject(state.items[i])]
                ELSE state[k]],
   version |-> 0]

\* localStorage.setItem(name, value)
setItem(storage, name, value) ==
  [k \in (DOMAIN storage) \cup {name} |-> IF k = name THEN value ELSE storage[k]]

\* the state a store created with persist starts with: the stored blob, when
\* there is one, merged over the initial state ({ ...current, ...persisted })
hydrate(storage, name) ==
  IF name \in DOMAIN storage
  THEN Spread(initialState, storage[name].state)
  ELSE initialState

\* quantities the model follows
InBounds(state) ==
  \A i \in 1..Len(state.items) :
    /\ state.items[i].quantity <= MaxQty
    /\ state.items[i].quantity >= 0 - MaxDebt

\* set(...) of a persisted store: the state is replaced, then written to storage
persistSet(name, next) ==
  /\ InBounds(next)
  /\ cart' = [cart EXCEPT ![name] = next]
  /\ localStorage' = setItem(localStorage, name, stringify(partialize(next)))

(***************************************************************************)
(* The operations of the cart store named `name`                           *)
(***************************************************************************)
addItem(name, item, quantity) ==
  persistSet(name, addItemState(cart[name], item, quantity))

removeItem(name, itemId) ==
  persistSet(name, removeItemState(cart[name], itemId))

updateQuantity(name, itemId, quantity) ==
  persistSet(name, updateQuantityState(cart[name], itemId, quantity))

incrementItem(name, itemId, amount) ==
  persistSet(name, incrementItemState(cart[name], itemId, amount))

decrementItem(name, itemId, amount) ==
  persistSet(name, decrementItemState(cart[name], itemId, amount))

clearCart(name) ==
  persistSet(name, clearCartState(cart[name]))

addMultipleItems(name, items) ==
  persistSet(name, addMultipleItemsState(cart[name], items))

removeMultipleItems(name, itemIds) ==
  persistSet(name, removeMultipleItemsState(cart[name], itemIds))

updateMultipleQuantities(name, updates) ==
  persistSet(name, updateMultipleQuantitiesState(cart[name], updates))

(***************************************************************************)
(* Wishlist store: createWishlistStore(config), useWishlistStore           *)
(***************************************************************************)
DefaultWishlist == "default-wishlist"

\* config.defaultItem of useWishlistStore (title, image, metadata are opaque)
wishlistDefaultItem == [id |-> "", price |-> 0]

wishlistInitialState == [items |-> <<>>, totalItems |-> 0, isEmpty |-> TRUE]

wishlistCalculateTotals(items) ==
  [totalItems |-> Len(items), isEmpty |-> (Len(items) = 0)]

wishlistPartialize(state) ==
  [items |-> state.items, totalItems |-> state.totalItems,
   isEmpty |-> state.isEmpty]

\* get().items.some(wishlistItem => wishlistItem.id === itemId)
isItemInWishlist(state, itemId) ==
  \E i \in 1..Len(state.items) : state.items[i].id = itemId

\* wishlist addItem that skips the lookup and always appends
wishlistAddItemAlways(state, item) ==
  LET updatedItems == Append(state.items, Spread(wishlistDefaultItem, item))
  IN setState(state, Spread([items |-> updatedItems],
                            wishlistCalculateTotals(updatedItems)))

\* The state after the wishlist's addItem(item)
wishlistAddItemState(state, item) ==
  IF findIndex(state.items, item.id) > 0
  THEN state
  ELSE LET newItem == Spread(wishlistDefaultItem, item)
           updatedItems == Append(state.items, newItem)
       IN setState(state, Spread([items |-> updatedItems],
                                 wishlistCalculateTotals(updatedItems)))

\* The state after the wishlist's removeItem(itemId)
wishlistRemoveItemState(state, itemId) ==
  LET keep(item) == item.id # itemId
      updatedItems == SelectSeq(state.items, keep)
  IN setState(state, Spread([items |-> updatedItems],
                            wishlistCalculateTotals(updatedItems)))

\* toggleItem that reports the branch the wrong way round
toggleItemResultSwapped(state, item) ==
  IF isItemInWishlist(state, item.id)
  THEN [state |-> wishlistRemoveItemState(state, item.id), result |-> TRUE]
  ELSE [state |-> wishlistAddItemState(state, item), result |-> FALSE]

\* toggleItem(item): the state after it and the boolean it returns
toggleItemResult(state, item) ==
  IF isItemInWishlist(state, item.id)
  THEN [state |-> wishlistRemoveItemState(state, item.id), result |-> FALSE]
  ELSE [state |-> wishlistAddItemState(state, item), result |-> TRUE]

\* The state after clearWishlist()
clearWishlistState(state) == setState(state, wishlistInitialState)

\* set(...) of the persisted wishlist store
wishlistPersistSet(next) ==
  /\ wishlist' = next
  /\ localStorage' =
       setItem(localStorage, DefaultWishlist, stringify(wishlistPartialize(next)))

\* moveToCart that takes the first wishlist entry when the lookup fails
moveToCartAnyItem(state, cartState, itemId, hasCallback) ==
  LET at == IF findIndex(state.items, itemId) > 0
            THEN findIndex(state.items, itemId)
            ELSE Len(state.items)
  IN IF at > 0 /\ hasCallback
     THEN LET item == state.items[at]
          IN [cart |-> addItemState(cartState, item, 1),
              wishlist |-> wishlistRemoveItemState(state, item.id),
              callbackArgs |-> <<[item |-> item, quantity |-> 1,
                                  wishlist |-> state]>>,
              returned |-> <<item>>]
     ELSE [cart |-> cartState, wishlist |-> state,
           callbackArgs |-> <<>>, returned |-> <<>>]

\* moveToCart that removes the entry first and calls back afterwards
moveToCartRemovesFirst(state, cartState, itemId, hasCallback) ==
  LET at == findIndex(state.items, itemId) IN
  IF at > 0 /\ hasCallback
  THEN LET item == state.items[at]
           removed == wishlistRemoveItemState(state, itemId)
       IN [cart |-> addItemState(cartState, item, 1),
           wishlist |-> removed,
           callbackArgs |-> <<[item |-> item, quantity |-> 1,
                               wishlist |-> removed]>>,
           returned |-> <<item>>]
  ELSE [cart |-> cartState, wishlist |-> state,
        callbackArgs |-> <<>>, returned |-> <<>>]

\* moveToCart(itemId, addToCartCallback) on the wishlist `state`, the callback
\* being the addItem of a cart in state `cartState` (hasCallback) or missing.
\* callbackArgs lists the calls of the callback in order, each with its
\* arguments and the wishlist state it ran in; returned is <<item>>, or <<>>
\* for undefined.  The callback runs first, then the wishlist's removeItem.
moveToCartResult(state, cartState, itemId, hasCallback) ==
  LET at == findIndex(state.items, itemId) IN
  IF at > 0 /\ hasCallback
  THEN LET item == state.items[at]
           afterCallback == addItemState(cartState, item, 1)
           afterRemove == wishlistRemoveItemState(state, itemId)
       IN [cart |-> afterCallback,
           wishlist |-> afterRemove,
           callbackArgs |-> <<[item |-> item, quantity |-> 1,
                               wishlist |-> state]>>,
           returned |-> <<item>>]
  ELSE [cart |-> cartState, wishlist |-> state,
        callbackArgs |-> <<>>, returned |-> <<>>]

\* moveToCart on the two default stores: each store that was set writes its
\* own blob, a call that finds nothing sets neither
moveToCart(itemId, hasCallback) ==
  LET r == moveToCartResult(wishlist, cart[DefaultCart], itemId, hasCallback) IN
  /\ InBounds(r.cart)
  /\ call' = [op |-> "moveToCart", itemId |-> itemId,
              hasCallback |-> hasCallback,
              before |-> wishlist, cartBefore |-> cart[DefaultCart],
              storage |-> localStorage,
              callbackArgs |-> r.callbackArgs, returned |-> r.returned]
  /\ IF r.callbackArgs # <<>>
     THEN /\ cart' = [cart EXCEPT ![DefaultCart] = r.cart]
          /\ wishlist' = r.wishlist
          /\ localStorage' =
               setItem(setItem(localStorage, DefaultCart,
                               stringify(partialize(r.cart))),
                       DefaultWishlist, stringify(wishlistPartialize(r.wishlist)))
     ELSE UNCHANGED <<cart, wishlist, localStorage>>

(***************************************************************************)
(* The event loop: setTimeout / clearTimeout.  Time is counted in ticks of  *)
(* 50 ms; a timeout runs at the tick it is due, after or before the other   *)
(* events of that tick.                                                     *)
(***************************************************************************)
MaxTime == 5      \* the clock is followed up to this tick
MaxCalls == 3     \* calls of a wrapper that are followed
MaxDelay == 3     \* delays and intervals range over 0..MaxDelay ticks

emptyLoop == [now |-> 0, nextId |-> 1, timers |-> {}]

\* setTimeout(callback, delay): the timeout's id is l.nextId
setTimeout(l, callback, delay) ==
  [l EXCEPT !.nextId = @ + 1,
            !.timers = @ \cup {[id |-> l.nextId, due |-> l.now + delay,
                                callback |-> callback]}]

\* clearTimeout(id); an id that is undefined (0) or has run clears nothing
clearTimeout(l, id) == [l EXCEPT !.timers = {t \in @ : t.id # id}]

\* the loop takes a due timeout off its list to run it
takeTimeout(l, t) == [l EXCEPT !.timers = @ \ {t}]

\* the closure of a wrapper that was not made
NoClosure == [made |-> FALSE]

\* the arguments wrappers are called with
Args == {"a", "b", "c"}

CallEvent(l, args) == [type |-> "call", at |-> l.now, args |-> args]
RunEvent(l, args) == [type |-> "run", at |-> l.now, args |-> args]

NumCalls(events) ==
  Cardinality({i \in 1..Len(events) : events[i].type = "call"})

(***************************************************************************)
(* debounce(func, delay), throttle(func, limit)                            *)
(***************************************************************************)
\* debounce whose wrapper does not clear the pending timeout
debounceCallKeepsPending(c, l, args) ==
  [closure |-> [c EXCEPT !.timeoutId = l.nextId],
   loop |-> setTimeout(l, [args |-> args], c.delay)]

\* a call of the wrapper debounce returned: closure c holds timeoutId
debounceCall(c, l, args) ==
  LET cleared == clearTimeout(l, c.timeoutId)
  IN [closure |-> [c EXCEPT !.timeoutId = cleared.nextId],
      loop |-> setTimeout(cleared, [args |-> args], c.delay)]

\* throttle whose wrapper never raises inThrottle
throttleCallNeverHolds(c, l, args) ==
  [closure |-> c,
   loop |-> setTimeout(l, [reset |-> TRUE], c.limit),
   ran |-> <<args>>]

\* a call of the wrapper throttle returned: closure c holds inThrottle; ran
\* lists the arguments func was applied to during the call
throttleCall(c, l, args) ==
  IF ~c.inThrottle
  THEN [closure |-> [c EXCEPT !.inThrottle = TRUE],
        loop |-> setTimeout(l, [reset |-> TRUE], c.limit),
        ran |-> <<args>>]
  ELSE [closure |-> c, loop |-> l, ran |-> <<>>]

(***************************************************************************)
(* Strings are sequences of one-character strings                          *)
(***************************************************************************)
RECURSIVE trimStart(_)
trimStart(s) ==
  IF s # <<>> /\ Head(s) = " " THEN trimStart(Tail(s)) ELSE s

RECURSIVE trimEnd(_)
trimEnd(s) ==
  IF s # <<>> /\ s[Len(s)] = " "
  THEN trimEnd(SubSeq(s, 1, Len(s) - 1))
  ELSE s

\* String.prototype.trim
trim(s) == trimEnd(trimStart(s))

\* Array.prototype.slice(0, n)
sliceTo(a, n) == SubSeq(a, 1, IF Len(a) < n THEN Len(a) ELSE n)

(***************************************************************************)
(* useSearch(data, searchConfig): the hook's state, its renders and the    *)
(* debounced search each render makes                                      *)
(***************************************************************************)
MaxData == 1      \* times the data prop is replaced
MaxRenders == 4   \* renders of the component that are followed

\* A render of the hook with the data prop `data`.  performSearch depends on
\* otherOptions, the rest object of a destructuring, which is a new object in
\* every render; so useCallback makes a new performSearch and useMemo a new
\* debounce wrapper, closed over this render's data, in every render.
render(c, data) ==
  [c EXCEPT !.data = data,
            !.wrappers = Append(@, [made |-> TRUE, delay |-> c.debounceDelay,
                                    timeoutId |-> 0, data |-> data])]

\* handleSearch(newQuery) of the last render, and the render that follows
\* when it changed the hook's state
handleSearch(c, l, newQuery) ==
  LET trimmedQuery == trim(newQuery)
      history == IF trimmedQuery # <<>> /\ ~includes(c.searchHistory, trimmedQuery)
                 THEN <<trimmedQuery>> \o sliceTo(c.searchHistory, 9)
                 ELSE c.searchHistory
      this == Len(c.wrappers)
      d == IF c.useDebounce
           THEN debounceCall(c.wrappers[this], l,
                             [func |-> this, searchQuery |-> trimmedQuery])
           ELSE [closure |-> c.wrappers[this], loop |-> l]
      set == [c EXCEPT !.query = trimmedQuery,
                       !.searchHistory = history,
                       !.wrappers[this] = d.closure]
  IN [closure |-> IF set.query # c.query \/ set.searchHistory # c.searchHistory
                  THEN render(set, c.data)
                  ELSE set,
      loop |-> d.loop]

\* what the debounced function of wrapper `func` does when its timeout runs:
\* onSearchStart(searchQuery), performSearch(searchQuery, data) on the data
\* of the render that made it, onSearchEnd(results)
searchRun(c, l, args) ==
  Spread(RunEvent(l, args.searchQuery),
         [data |-> c.wrappers[args.func].data, current |-> c.data])

(***************************************************************************)
(* Values of the search utilities.  A value carries its type: a string is  *)
(* Str(sequence of characters), so that case folding, comparison and       *)
(* containment are computed on the characters.                             *)
(***************************************************************************)
Str(s) == [t |-> "string", v |-> s]
Num(n) == [t |-> "number", v |-> n]
Obj(o) == [t |-> "object", v |-> o]
Arr(items) == [t |-> "array", v |-> items]
Null == [t |-> "null"]
Undef == [t |-> "undefined"]

\* Array.isArray(value)
isArray(value) == value.t = "array"

\* value === null || value === undefined
nullish(value) == value.t \in {"null", "undefined"}

\* !value
falsy(value) ==
  \/ nullish(value)
  \/ value.t = "string" /\ value.v = <<>>
  \/ value.t = "number" /\ value.v = 0

\* current[key]; the keys read here are no property of a string or a number
get(value, key) ==
  IF value.t = "object" /\ key \in DOMAIN value.v THEN value.v[key] ELSE Undef

\* String(n) of a number n >= 0
RECURSIVE numberToString(_)
numberToString(n) ==
  LET Digits == <<"0", "1", "2", "3", "4", "5", "6", "7", "8", "9">> IN
  IF n < 10 THEN <<Digits[n + 1]>>
  ELSE numberToString(n \div 10) \o <<Digits[(n % 10) + 1]>>

\* String(value) of a value that is neither null nor undefined
String(value) ==
  CASE value.t = "string" -> value.v
    [] value.t = "number" -> numberToString(value.v)
    [] value.t = "object" ->
         <<"[", "o", "b", "j", "e", "c", "t", " ",
           "O", "b", "j", "e", "c", "t", "]">>

\* String.prototype.toLowerCase on the alphabet in use
toLowerCase(s) ==
  LET LowerOf == [A |-> "a", B |-> "b", O |-> "o"] IN
  [i \in 1..Len(s) |-> IF s[i] \in DOMAIN LowerOf THEN LowerOf[s[i]] ELSE s[i]]

\* text.indexOf(query), counted from 0; -1 when query does not occur
indexOf(text, query) ==
  LET at == {i \in 0..(Len(text) - Len(query)) :
               SubSeq(text, i + 1, i + Len(query)) = query}
  IN IF at = {} THEN -1 ELSE CHOOSE i \in at : \A j \in at : i <= j

stringIncludes(text, query) == indexOf(text, query) >= 0

startsWith(text, query) ==
  Len(query) <= Len(text) /\ SubSeq(text, 1, Len(query)) = query

endsWith(text, query) ==
  /\ Len(query) <= Len(text)
  /\ SubSeq(text, Len(text) - Len(query) + 1, Len(text)) = query

\* path.split('.') of a path written as its names with "." between them
split(path) ==
  LET name(token) == token # "." IN SelectSeq(path, name)

RECURSIVE reducePath(_, _)
reducePath(current, pathArray) ==
  IF pathArray = <<>> THEN current
  ELSE reducePath(IF nullish(current) THEN Undef
                  ELSE get(current, Head(pathArray)),
                  Tail(pathArray))

getNestedValue(obj, path) ==
  IF falsy(obj) \/ path = <<>> THEN Undef
  ELSE reducePath(obj, split(path))

\* an absent option takes the default of the destructuring
optionOr(options, name, default) ==
  IF name \in DOMAIN options THEN options[name] ELSE default

\* caseSensitive ? s : s.toLowerCase()
normalize(s, caseSensitive) == IF caseSensitive THEN s ELSE toLowerCase(s)

(***************************************************************************)
(* searchData(data, query, searchOptions); data is Arr(items) when it is   *)
(* an array                                                                *)
(***************************************************************************)
\* The custom matchers a caller passes: "null" is no matcher, the others are
\* functions of (item, normalizedQuery, searchOptions)
CustomMatchers == {"null", "never", "always", "titleIsQuery"}

customMatcherResult(customMatcher, item, normalizedQuery, searchOptions) ==
  CASE customMatcher = "never" -> FALSE
    [] customMatcher = "always" -> TRUE
    [] customMatcher = "titleIsQuery" ->
         get(item, "title") = Str(normalizedQuery)

\* the callback of Object.entries(keys).some(...) in searchData
keyMatches(item, entry, caseSensitive, normalizedQuery, exactMatch) ==
  LET value == getNestedValue(item, entry.dataPath) IN
  IF nullish(value) THEN FALSE
  ELSE LET normalizedValue == normalize(String(value), caseSensitive)
       IN IF exactMatch
          THEN normalizedValue = normalizedQuery
          ELSE stringIncludes(normalizedValue, normalizedQuery)

\* searchData where a record is kept when the matcher or a key accepts it
searchDataMatcherOrKeys(data, query, searchOptions) ==
  LET keys == optionOr(searchOptions, "keys", <<>>)
      caseSensitive == optionOr(searchOptions, "caseSensitive", FALSE)
      exactMatch == optionOr(searchOptions, "exactMatch", FALSE)
      customMatcher == optionOr(searchOptions, "customMatcher", "null")
      normalizedQuery == normalize(query, caseSensitive)
      keep(item) ==
        \/ /\ customMatcher # "null"
           /\ customMatcherResult(customMatcher, item, normalizedQuery,
                                  searchOptions)
        \/ \E k \in 1..Len(keys) :
             keyMatches(item, keys[k], caseSensitive, normalizedQuery, exactMatch)
  IN IF ~isArray(data) THEN Arr(<<>>)
     ELSE IF query = <<>> THEN data
     ELSE IF Len(keys) = 0 THEN data
     ELSE Arr(SelectSeq(data.v, keep))

searchData(data, query, searchOptions) ==
  LET keys == optionOr(searchOptions, "keys", <<>>)
      caseSensitive == optionOr(searchOptions, "caseSensitive", FALSE)
      exactMatch == optionOr(searchOptions, "exactMatch", FALSE)
      customMatcher == optionOr(searchOptions, "customMatcher", "null")
      normalizedQuery == normalize(query, caseSensitive)
      keep(item) ==
        IF customMatcher # "null"
        THEN customMatcherResult(customMatcher, item, normalizedQuery,
                                 searchOptions)
        ELSE \E k \in 1..Len(keys) :
               keyMatches(item, keys[k], caseSensitive, normalizedQuery,
                          exactMatch)
  IN IF ~isArray(data) THEN Arr(<<>>)
     ELSE IF query = <<>> THEN data
     ELSE IF Len(keys) = 0 THEN data
     ELSE Arr(SelectSeq(data.v, keep))

(***************************************************************************)
(* advancedSearch(data, query, options)                                    *)
(***************************************************************************)
\* the for loop of fuzzyMatch: [score, patternIndex] when it ends
RECURSIVE fuzzyScan(_, _, _, _, _)
fuzzyScan(text, pattern, i, score, patternIndex) ==
  IF i < Len(text) /\ patternIndex < Len(pattern)
  THEN IF text[i + 1] = pattern[patternIndex + 1]
       THEN fuzzyScan(text, pattern, i + 1, score + 1, patternIndex + 1)
       ELSE fuzzyScan(text, pattern, i + 1, score, patternIndex)
  ELSE [score |-> score, patternIndex |-> patternIndex]

\* fuzzyMatch without the test that the whole pattern was found
fuzzyMatchPartial(text, pattern) ==
  IF text = <<>> \/ pattern = <<>> THEN [num |-> 0, den |-> 1]
  ELSE LET end == fuzzyScan(text, pattern, 0, 0, 0)
       IN [num |-> end.score, den |-> Len(pattern)]

\* fuzzyMatch(text, pattern), a fraction num / den
fuzzyMatch(text, pattern) ==
  IF text = <<>> \/ pattern = <<>> THEN [num |-> 0, den |-> 1]
  ELSE LET end == fuzzyScan(text, pattern, 0, 0, 0)
       IN IF end.patternIndex = Len(pattern)
          THEN [num |-> end.score, den |-> Len(pattern)]
          ELSE [num |-> 0, den |-> 1]

\* minScore = 0.3
minScore == [num |-> 3, den |-> 10]

\* a >= b on fractions with positive denominators
atLeast(a, b) == a.num * b.den >= b.num * a.den

\* new RegExp(pattern, 'gi').test(text) for a pattern of letters and digits
regexTest(pattern, text) ==
  stringIncludes(toLowerCase(text), toLowerCase(pattern))

Strategies == {"contains", "startsWith", "endsWith", "fuzzy", "regex"}

strategyMatches(strategy, normalizedValue, normalizedQuery) ==
  CASE strategy = "startsWith" -> startsWith(normalizedValue, normalizedQuery)
    [] strategy = "endsWith" -> endsWith(normalizedValue, normalizedQuery)
    [] strategy = "fuzzy" ->
         atLeast(fuzzyMatch(normalizedValue, normalizedQuery), minScore)
    [] strategy = "regex" -> regexTest(normalizedQuery, normalizedValue)
    [] OTHER -> stringIncludes(normalizedValue, normalizedQuery)

advancedSearch(data, query, options) ==
  LET keys == optionOr(options, "keys", <<>>)
      strategy == optionOr(options, "strategy", "contains")
      caseSensitive == optionOr(options, "caseSensitive", FALSE)
      normalizedQuery == normalize(query, caseSensitive)
      keyPasses(item, entry) ==
        LET value == getNestedValue(item, entry.dataPath) IN
        IF nullish(value) THEN FALSE
        ELSE strategyMatches(strategy,
                             normalize(String(value), caseSensitive),
                             normalizedQuery)
      keep(item) == \E k \in 1..Len(keys) : keyPasses(item, keys[k])
  IN IF query = <<>> \/ ~isArray(data) THEN data
     ELSE Arr(SelectSeq(data.v, keep))

(***************************************************************************)
(* rankedSearch(data, query, options); scores are fractions num / den      *)
(***************************************************************************)
plus(a, b) == [num |-> a.num * b.den + b.num * a.den, den |-> a.den * b.den]

\* calculateMatchScore(text, query):
\* ((1 - index / text.length) + query.length / text.length) / 2
calculateMatchScore(text, query) ==
  LET index == indexOf(text, query) IN
  IF index = -1 THEN [num |-> 0, den |-> 1]
  ELSE [num |-> (Len(text) - index) + Len(query), den |-> 2 * Len(text)]

\* weights[searchKey] || defaultWeight
weightOr1(weights, searchKey) ==
  IF searchKey \in DOMAIN weights /\ weights[searchKey] # 0
  THEN weights[searchKey]
  ELSE 1

\* the forEach over Object.entries(keys): [totalScore, matchCount] after
\* the entries from k on
RECURSIVE scoreKeys(_, _, _, _, _, _, _)
scoreKeys(acc, item, keys, k, weights, caseSensitive, normalizedQuery) ==
  IF k > Len(keys) THEN acc
  ELSE LET value == getNestedValue(item, keys[k].dataPath)
           normalizedValue == normalize(String(value), caseSensitive)
           score == calculateMatchScore(normalizedValue, normalizedQuery)
           weight == weightOr1(weights, keys[k].searchKey)
           next ==
             IF ~nullish(value) /\ stringIncludes(normalizedValue, normalizedQuery)
             THEN [totalScore |-> plus(acc.totalScore,
                                       [num |-> score.num * weight,
                                        den |-> score.den]),
                   matchCount |-> acc.matchCount + 1]
             ELSE acc
       IN scoreKeys(next, item, keys, k + 1, weights, caseSensitive,
                    normalizedQuery)

\* a.score > b.score on fractions with positive denominators
greater(a, b) == a.num * b.den > b.num * a.den

\* a sort that puts a result ahead of the earlier results of the same score
RECURSIVE sortByScoreUnstable(_)
sortByScoreUnstable(results) ==
  IF results = <<>> THEN <<>>
  ELSE LET last == results[Len(results)]
           sorted == sortByScoreUnstable(SubSeq(results, 1, Len(results) - 1))
           ahead == {i \in 1..Len(sorted) : atLeast(last.score, sorted[i].score)}
           at == IF ahead = {} THEN Len(sorted) + 1
                 ELSE CHOOSE i \in ahead : \A j \in ahead : i <= j
       IN SubSeq(sorted, 1, at - 1) \o <<last>> \o SubSeq(sorted, at, Len(sorted))

\* results.sort((a, b) => b.score - a.score): a stable sort, the result
\* with the higher score first
RECURSIVE sortByScore(_)
sortByScore(results) ==
  IF results = <<>> THEN <<>>
  ELSE LET last == results[Len(results)]
           sorted == sortByScore(SubSeq(results, 1, Len(results) - 1))
           ahead == {i \in 1..Len(sorted) : greater(last.score, sorted[i].score)}
           at == IF ahead = {} THEN Len(sorted) + 1
                 ELSE CHOOSE i \in ahead : \A j \in ahead : i <= j
       IN SubSeq(sorted, 1, at - 1) \o <<last>> \o SubSeq(sorted, at, Len(sorted))

rankedSearch(data, query, options) ==
  LET keys == optionOr(options, "keys", <<>>)
      weights == optionOr(options, "weights", <<>>)
      caseSensitive == optionOr(options, "caseSensitive", FALSE)
      normalizedQuery == normalize(query, caseSensitive)
      result(item) ==
        LET sums == scoreKeys([totalScore |-> [num |-> 0, den |-> 1],
                               matchCount |-> 0],
                              item, keys, 1, weights, caseSensitive,
                              normalizedQuery)
        IN [item |-> item,
            score |-> IF sums.matchCount > 0
                      THEN [num |-> sums.totalScore.num,
                            den |-> sums.totalScore.den * sums.matchCount]
                      ELSE [num |-> 0, den |-> 1],
            matchCount |-> sums.matchCount]
      positive(r) == greater(r.score, [num |-> 0, den |-> 1])
      results ==
        SelectSeq([i \in 1..Len(data.v) |-> result(data.v[i])], positive)
      sorted == sortByScore(results)
  IN IF query = <<>> \/ ~isArray(data) THEN data
     ELSE Arr([i \in 1..Len(sorted) |-> sorted[i].item])

(***************************************************************************)
(* searchWithHighlight(data, query, options)                               *)
(***************************************************************************)
OpenSpan == "<span class=\"search-highlight\">"
CloseSpan == "</span>"

\* the regular expression made of the escaped query matches at s[i]
matchesAt(s, i, query, caseSensitive) ==
  /\ i + Len(query) - 1 <= Len(s)
  /\ normalize(SubSeq(s, i, i + Len(query) - 1), caseSensitive)
       = normalize(query, caseSensitive)

\* stringValue.replace(regex, '<span class="...">$1</span>') with the g flag:
\* every match from s[i] on is wrapped; an empty match is found before
\* every character and at the end
RECURSIVE replaceFrom(_, _, _, _)
replaceFrom(s, i, query, caseSensitive) ==
  IF i > Len(s)
  THEN IF query = <<>> THEN <<OpenSpan, CloseSpan>> ELSE <<>>
  ELSE IF ~matchesAt(s, i, query, caseSensitive)
       THEN <<s[i]>> \o replaceFrom(s, i + 1, query, caseSensitive)
  ELSE IF query = <<>>
       THEN <<OpenSpan, CloseSpan, s[i]>>
              \o replaceFrom(s, i + 1, query, caseSensitive)
  ELSE <<OpenSpan>> \o SubSeq(s, i, i + Len(query) - 1) \o <<CloseSpan>>
         \o replaceFrom(s, i + Len(query), query, caseSensitive)

\* obj with property key set to value
withProperty(obj, key, value) ==
  Obj([k \in DOMAIN obj.v \cup {key} |-> IF k = key THEN value ELSE obj.v[k]])

\* setNestedValue(obj, path, value): the object obj is after the call; an
\* object on the way is kept and written to, anything else is replaced by {}
RECURSIVE setNestedValue(_, _, _)
setNestedValue(obj, pathArray, value) ==
  IF Len(pathArray) = 1 THEN withProperty(obj, pathArray[1], value)
  ELSE LET key == Head(pathArray)
           current == IF get(obj, key).t = "object"
                      THEN get(obj, key)
                      ELSE Obj(<<>>)
       IN withProperty(obj, key, setNestedValue(current, Tail(pathArray), value))

\* The forEach over Object.entries(keys) for one result.  highlightedItem is
\* { ...item }: a new object whose properties hold item's own nested objects
\* (those under the names in `shared`), so a write below such a property is
\* a write to item too.  A write to the property itself, or one that finds no
\* object there, puts a new value into highlightedItem only.
RECURSIVE highlightKeys(_, _, _, _, _)
highlightKeys(acc, keys, k, query, caseSensitive) ==
  IF k > Len(keys) THEN acc
  ELSE LET value == getNestedValue(acc.item, keys[k].dataPath)
           stringValue == String(value)
           pathArray == split(keys[k].dataPath)
           first == Head(pathArray)
           written == setNestedValue(acc.highlightedItem, pathArray,
                        Str(replaceFrom(stringValue, 1, query, caseSensitive)))
           through == /\ Len(pathArray) > 1
                      /\ first \in acc.shared
                      /\ get(acc.highlightedItem, first).t = "object"
           next ==
             IF /\ ~nullish(value)
                /\ stringIncludes(normalize(stringValue, caseSensitive),
                                  normalize(query, caseSensitive))
             THEN [highlightedItem |-> written,
                   item |-> IF through
                            THEN withProperty(acc.item, first, get(written, first))
                            ELSE acc.item,
                   shared |-> IF through THEN acc.shared
                              ELSE acc.shared \ {first}]
             ELSE acc
       IN highlightKeys(next, keys, k + 1, query, caseSensitive)

\* searchWithHighlight: the array it returns and the data array after it
searchWithHighlight(data, query, options) ==
  LET keys == optionOr(options, "keys", <<>>)
      caseSensitive == optionOr(options, "caseSensitive", FALSE)
      results == searchData(data, query,
                            [keys |-> keys, caseSensitive |-> caseSensitive]).v
      done(item) ==
        highlightKeys([highlightedItem |-> item, item |-> item,
                       shared |-> {k \in DOMAIN item.v : item.v[k].t = "object"}],
                      keys, 1, query, caseSensitive)
      after(item) ==
        IF \E i \in 1..Len(results) : results[i] = item
        THEN done(item).item
        ELSE item
  IN [result |->
        Arr([i \in 1..Len(results) |-> done(results[i]).highlightedItem]),
      data |-> IF isArray(data)
               THEN Arr([i \in 1..Len(data.v) |-> after(data.v[i])])
               ELSE data]

(***************************************************************************)
(* useSearch: performSearch and the results of a render                    *)
(***************************************************************************)
\* performSearch(searchQuery, searchData) under the hook's configuration.
\* Its second parameter hides the imported searchData, so the default branch
\* calls the data array as a function and throws a TypeError.  otherOptions,
\* spread last into searchOptions, holds what the configuration has beside
\* the named options; advancedSearch and rankedSearch read none of it here.
performSearch(searchQuery, data, searchConfig) ==
  LET strategy == optionOr(searchConfig, "strategy", "contains")
      weights == optionOr(searchConfig, "weights", <<>>)
      searchOptions ==
        [keys |-> optionOr(searchConfig, "keys", <<>>),
         caseSensitive |-> optionOr(searchConfig, "caseSensitive", FALSE),
         exactMatch |-> optionOr(searchConfig, "exactMatch", FALSE),
         searchInNestedObjects |-> TRUE]
  IN IF trim(searchQuery) = <<>> \/ ~isArray(data) \/ Len(data.v) = 0
     THEN [threw |-> FALSE, value |-> data]
     ELSE CASE strategy = "advanced" ->
                 [threw |-> FALSE,
                  value |-> advancedSearch(data, searchQuery, searchOptions)]
            [] strategy = "ranked" ->
                 [threw |-> FALSE,
                  value |-> rankedSearch(data, searchQuery,
                              Spread(searchOptions, [weights |-> weights]))]
            [] strategy \in Strategies ->
                 [threw |-> FALSE,
                  value |-> advancedSearch(data, searchQuery,
                              Spread(searchOptions, [strategy |-> strategy]))]
            [] OTHER -> [threw |-> TRUE]

\* the results useMemo of a render whose query state is `query`
hookResults(query, data, searchConfig) ==
  IF trim(query) = <<>> THEN [threw |-> FALSE, value |-> data]
  ELSE performSearch(query, data, searchConfig)

(***************************************************************************)
(* Arguments the operations are called with                                *)
(***************************************************************************)
\* sequences over S of length at most n
SeqUpTo(S, n) == UNION {[1..k -> S] : k \in 0..n}

\* items handed to addMultipleItems: a product, with or without a quantity
BulkQtys == {-1, 0, 2}
BulkProducts == {p \in Products : p.id \in {"n1", "s1"}}
BulkItems ==
  BulkProducts \cup
  {Spread(p, [quantity |-> q]) : p \in BulkProducts, q \in BulkQtys}

\* objects handed to updateMultipleQuantities: property key -> quantity
Keys == {"1", "2"}
Updates == UNION {[K -> {-1, 0, 1, 2}] : K \in SUBSET Keys}

\* the record of the call being served: its name, its arguments and the
\* state of the store it was made on
NoCall == [op |-> "none"]

(***************************************************************************)
(* Spec: the default cart store under every sequence of its operations.    *)
(* A caller makes one call at a time (pc = "idle" -> "called"), `call`     *)
(* records it until the caller returns to the event loop.                  *)
(***************************************************************************)
Init ==
  /\ cart = [n \in CartNames |-> initialState]
  /\ localStorage = <<>>
  /\ session = 0
  /\ pc = "idle"
  /\ call = NoCall
  /\ wishlist = wishlistInitialState
  /\ loop = emptyLoop
  /\ closure = NoClosure
  /\ log = <<>>

Idle == pc = "idle"

\* the caller records the call it makes on the default cart
Calls(c) ==
  /\ pc' = "called"
  /\ call' = Spread(c, [before |-> cart[DefaultCart]])
  /\ UNCHANGED <<session, wishlist, loop, closure, log>>

AddItem ==
  /\ Idle
  /\ \E item \in Products, quantity \in QtyArgs :
       /\ addItem(DefaultCart, item, quantity)
       /\ Calls([op |-> "addItem", item |-> item, quantity |-> quantity])

RemoveItem ==
  /\ Idle
  /\ \E itemId \in Ids :
       /\ removeItem(DefaultCart, itemId)
       /\ Calls([op |-> "removeItem", itemId |-> itemId])

UpdateQuantity ==
  /\ Idle
  /\ \E itemId \in Ids, quantity \in QtyArgs :
       /\ updateQuantity(DefaultCart, itemId, quantity)
       /\ Calls([op |-> "updateQuantity", itemId |-> itemId, quantity |-> quantity])

IncrementItem ==
  /\ Idle
  /\ \E itemId \in Ids, amount \in QtyArgs :
       /\ incrementItem(DefaultCart, itemId, amount)
       /\ Calls([op |-> "incrementItem", itemId |-> itemId, amount |-> amount])

DecrementItem ==
  /\ Idle
  /\ \E itemId \in Ids, amount \in QtyArgs :
       /\ decrementItem(DefaultCart, itemId, amount)
       /\ Calls([op |-> "decrementItem", itemId |-> itemId, amount |-> amount])

ClearCart ==
  /\ Idle
  /\ clearCart(DefaultCart)
  /\ Calls([op |-> "clearCart"])

AddMultipleItems ==
  /\ Idle
  /\ \E items \in SeqUpTo(BulkItems, MaxBulk) :
       /\ addMultipleItems(DefaultCart, items)
       /\ Calls([op |-> "addMultipleItems", items |-> items])

RemoveMultipleItems ==
  /\ Idle
  /\ \E itemIds \in SeqUpTo(Ids, MaxBulk) :
       /\ removeMultipleItems(DefaultCart, itemIds)
       /\ Calls([op |-> "removeMultipleItems", itemIds |-> itemIds])

UpdateMultipleQuantities ==
  /\ Idle
  /\ \E updates \in Updates :
       /\ updateMultipleQuantities(DefaultCart, updates)
       /\ Calls([op |-> "updateMultipleQuantities", updates |-> updates])

\* a caller running addItem(x, 1); addItem(x, 1) with nothing in between
AddTwiceFirst ==
  /\ Idle
  /\ \E x \in Products :
       /\ addItem(DefaultCart, x, 1)
       /\ call' = [op |-> "addTwice", item |-> x, before |-> cart[DefaultCart]]
  /\ pc' = "added1"
  /\ UNCHANGED <<session, wishlist, loop, closure, log>>

AddTwiceSecond ==
  /\ pc = "added1"
  /\ addItem(DefaultCart, call.item, 1)
  /\ pc' = "added2"
  /\ UNCHANGED <<session, call, wishlist, loop, closure, log>>

\* the caller returns to the event loop
Return ==
  /\ pc \in {"called", "added2"}
  /\ pc' = "idle"
  /\ call' = NoCall
  /\ UNCHANGED <<cart, localStorage, session, wishlist, loop, closure, log>>

Next ==
  \/ AddItem
  \/ RemoveItem
  \/ UpdateQuantity
  \/ IncrementItem
  \/ DecrementItem
  \/ ClearCart
  \/ AddMultipleItems
  \/ RemoveMultipleItems
  \/ UpdateMultipleQuantities
  \/ AddTwiceFirst
  \/ AddTwiceSecond
  \/ Return

Spec == Init /\ [][Next]_vars

(***************************************************************************)
(* SpecPersist: two persisted cart stores with different store names, and  *)
(* restarts of the process, after which every store starts from storage.   *)
(***************************************************************************)
\* items whose optional category is absent, a string, or undefined
\* (product-card passes category: data.category?.name)
WithCategory(p) ==
  {p, Spread(p, [category |-> "Books"]), Spread(p, [category |-> Undefined])}

PersistItems(name) ==
  IF name = DefaultCart
  THEN WithCategory([id |-> "n1", price |-> 2]) \cup {[id |-> "s1", price |-> 3]}
  ELSE {[id |-> "n1", price |-> 2]}

\* the caller records the call, the store it is made on and the storage before it
CallsOn(name, op) ==
  /\ pc' = "called"
  /\ call' = [op |-> op, store |-> name, storage |-> localStorage]
  /\ UNCHANGED <<session, wishlist, loop, closure, log>>

PAddItem ==
  /\ Idle
  /\ \E name \in CartNames :
       \E item \in PersistItems(name), quantity \in QtyArgs :
         addItem(name, item, quantity) /\ CallsOn(name, "addItem")

PRemoveItem ==
  /\ Idle
  /\ \E name \in CartNames, itemId \in Ids :
       removeItem(name, itemId) /\ CallsOn(name, "removeItem")

PUpdateQuantity ==
  /\ Idle
  /\ \E name \in CartNames, itemId \in Ids, quantity \in QtyArgs :
       updateQuantity(name, itemId, quantity) /\ CallsOn(name, "updateQuantity")

PIncrementItem ==
  /\ Idle
  /\ \E name \in CartNames, itemId \in Ids, amount \in QtyArgs :
       incrementItem(name, itemId, amount) /\ CallsOn(name, "incrementItem")

PDecrementItem ==
  /\ Idle
  /\ \E name \in CartNames, itemId \in Ids, amount \in QtyArgs :
       decrementItem(name, itemId, amount) /\ CallsOn(name, "decrementItem")

PClearCart ==
  /\ Idle
  /\ \E name \in CartNames : clearCart(name) /\ CallsOn(name, "clearCart")

PAddMultipleItems ==
  /\ Idle
  /\ \E name \in CartNames :
       \E items \in SeqUpTo(PersistItems(name), MaxBulk) :
         addMultipleItems(name, items) /\ CallsOn(name, "addMultipleItems")

PRemoveMultipleItems ==
  /\ Idle
  /\ \E name \in CartNames, itemIds \in SeqUpTo(Ids, MaxBulk) :
       removeMultipleItems(name, itemIds) /\ CallsOn(name, "removeMultipleItems")

PUpdateMultipleQuantities ==
  /\ Idle
  /\ \E name \in CartNames, updates \in Updates :
       /\ updateMultipleQuantities(name, updates)
       /\ CallsOn(name, "updateMultipleQuantities")

\* the process restarts: every store is created again and hydrated from storage
Restart ==
  /\ Idle
  /\ session < MaxSessions
  /\ session' = session + 1
  /\ cart' = [name \in CartNames |-> hydrate(localStorage, name)]
  /\ pc' = "called"
  /\ call' = [op |-> "restart", carts |-> cart]
  /\ UNCHANGED <<localStorage, wishlist, loop, closure, log>>

NextPersist ==
  \/ PAddItem
  \/ PRemoveItem
  \/ PUpdateQuantity
  \/ PIncrementItem
  \/ PDecrementItem
  \/ PClearCart
  \/ PAddMultipleItems
  \/ PRemoveMultipleItems
  \/ PUpdateMultipleQuantities
  \/ Restart
  \/ Return

SpecPersist == Init /\ [][NextPersist]_vars

(***************************************************************************)
(* SpecWishlist: the default wishlist store under every sequence of its    *)
(* operations; moveToCart is given the default cart's addItem.             *)
(***************************************************************************)
\* the caller records the call it makes on the wishlist
WCalls(c) ==
  /\ pc' = "called"
  /\ call' = Spread(c, [before |-> wishlist])
  /\ UNCHANGED <<cart, session, loop, closure, log>>

WAddItem ==
  /\ Idle
  /\ \E item \in Products :
       /\ wishlistPersistSet(wishlistAddItemState(wishlist, item))
       /\ WCalls([op |-> "addItem", item |-> item])

WRemoveItem ==
  /\ Idle
  /\ \E itemId \in Ids :
       /\ wishlistPersistSet(wishlistRemoveItemState(wishlist, itemId))
       /\ WCalls([op |-> "removeItem", itemId |-> itemId])

WToggleItem ==
  /\ Idle
  /\ \E item \in Products :
       /\ wishlistPersistSet(toggleItemResult(wishlist, item).state)
       /\ WCalls([op |-> "toggleItem", item |-> item,
                  result |-> toggleItemResult(wishlist, item).result])

WClearWishlist ==
  /\ Idle
  /\ wishlistPersistSet(clearWishlistState(wishlist))
  /\ WCalls([op |-> "clearWishlist"])

WMoveToCart ==
  /\ Idle
  /\ \E itemId \in Ids, hasCallback \in BOOLEAN : moveToCart(itemId, hasCallback)
  /\ pc' = "called"
  /\ UNCHANGED <<session, loop, closure, log>>

\* a caller running toggleItem(x); toggleItem(x) with nothing in between
ToggleTwiceFirst ==
  /\ Idle
  /\ \E x \in Products :
       /\ wishlistPersistSet(toggleItemResult(wishlist, x).state)
       /\ call' = [op |-> "toggleTwice", item |-> x, before |-> wishlist,
                   first |-> toggleItemResult(wishlist, x).result]
  /\ pc' = "toggled1"
  /\ UNCHANGED <<cart, session, loop, closure, log>>

ToggleTwiceSecond ==
  /\ pc = "toggled1"
  /\ wishlistPersistSet(toggleItemResult(wishlist, call.item).state)
  /\ call' = Spread(call, [second |-> toggleItemResult(wishlist, call.item).result])
  /\ pc' = "toggled2"
  /\ UNCHANGED <<cart, session, loop, closure, log>>

WReturn ==
  /\ pc \in {"called", "toggled2"}
  /\ pc' = "idle"
  /\ call' = NoCall
  /\ UNCHANGED <<cart, localStorage, session, wishlist, loop, closure, log>>

NextWishlist ==
  \/ WAddItem
  \/ WRemoveItem
  \/ WToggleItem
  \/ WClearWishlist
  \/ WMoveToCart
  \/ ToggleTwiceFirst
  \/ ToggleTwiceSecond
  \/ WReturn

SpecWishlist == Init /\ [][NextWishlist]_vars

(***************************************************************************)
(* SpecDebounce: one wrapper made by debounce(func, delay), called at any   *)
(* ticks with any arguments; func records its runs in log.                  *)
(***************************************************************************)
InitStores ==
  /\ cart = [n \in CartNames |-> initialState]
  /\ localStorage = <<>>
  /\ session = 0
  /\ pc = "idle"
  /\ call = NoCall
  /\ wishlist = wishlistInitialState

InitDebounce ==
  /\ InitStores
  /\ loop = emptyLoop
  /\ closure \in {[made |-> TRUE, delay |-> d, timeoutId |-> 0] :
                    d \in 0..MaxDelay}
  /\ log = <<>>

\* time passes once every due timeout has run
Tick ==
  /\ loop.now < MaxTime
  /\ \A t \in loop.timers : t.due > loop.now
  /\ loop' = [loop EXCEPT !.now = @ + 1]
  /\ UNCHANGED <<closure, log>>
  /\ UNCHANGED storeVars

DebounceCall ==
  /\ NumCalls(log) < MaxCalls
  /\ \E args \in Args :
       LET r == debounceCall(closure, loop, args) IN
       /\ closure' = r.closure
       /\ loop' = r.loop
       /\ log' = Append(log, CallEvent(loop, args))
  /\ UNCHANGED storeVars

\* the timeout runs () => func.apply(this, args)
DebounceFire ==
  /\ \E t \in loop.timers :
       /\ t.due <= loop.now
       /\ loop' = takeTimeout(loop, t)
       /\ log' = Append(log, RunEvent(loop, t.callback.args))
  /\ UNCHANGED closure
  /\ UNCHANGED storeVars

NextDebounce ==
  \/ DebounceCall
  \/ DebounceFire
  \/ Tick

SpecDebounce == InitDebounce /\ [][NextDebounce]_vars

(***************************************************************************)
(* SpecThrottle: one wrapper made by throttle(func, limit)                 *)
(***************************************************************************)
InitThrottle ==
  /\ InitStores
  /\ loop = emptyLoop
  /\ closure \in {[made |-> TRUE, limit |-> d, inThrottle |-> FALSE] :
                    d \in 0..MaxDelay}
  /\ log = <<>>

ThrottleCall ==
  /\ NumCalls(log) < MaxCalls
  /\ \E args \in Args :
       LET r == throttleCall(closure, loop, args) IN
       /\ closure' = r.closure
       /\ loop' = r.loop
       /\ log' = Append(log, CallEvent(loop, args)) \o
                   [i \in 1..Len(r.ran) |-> RunEvent(loop, r.ran[i])]
  /\ UNCHANGED storeVars

\* the timeout runs () => inThrottle = false
ThrottleFire ==
  /\ \E t \in loop.timers :
       /\ t.due <= loop.now
       /\ loop' = takeTimeout(loop, t)
       /\ closure' = [closure EXCEPT !.inThrottle = FALSE]
  /\ UNCHANGED log
  /\ UNCHANGED storeVars

NextThrottle ==
  \/ ThrottleCall
  \/ ThrottleFire
  \/ Tick

SpecThrottle == InitThrottle /\ [][NextThrottle]_vars

(***************************************************************************)
(* SpecHook: one component using useSearch with debouncing, as App.jsx     *)
(* does: keystrokes call handleSearch, the data prop is replaced when a    *)
(* fetch completes, the parent re-renders at will.                         *)
(***************************************************************************)
QueryInputs == {<<"a">>, <<"a", " ">>, <<"a", "b">>}

InitHook ==
  /\ InitStores
  /\ loop = emptyLoop
  /\ closure \in {render([made |-> TRUE, useDebounce |-> TRUE,
                          debounceDelay |-> d, query |-> <<>>,
                          searchHistory |-> <<>>, data |-> 0,
                          wrappers |-> <<>>], 0) : d \in 1..MaxDelay}
  /\ log = <<>>

HandleSearch ==
  /\ NumCalls(log) < MaxCalls
  /\ Len(closure.wrappers) < MaxRenders
  /\ \E newQuery \in QueryInputs :
       LET r == handleSearch(closure, loop, newQuery) IN
       /\ closure' = r.closure
       /\ loop' = r.loop
       /\ log' = Append(log, CallEvent(loop, trim(newQuery)))
  /\ UNCHANGED storeVars

SearchFire ==
  /\ \E t \in loop.timers :
       /\ t.due <= loop.now
       /\ loop' = takeTimeout(loop, t)
       /\ log' = Append(log, searchRun(closure, loop, t.callback.args))
  /\ UNCHANGED closure
  /\ UNCHANGED storeVars

\* the fetch completes: the component renders with a new data array
ReplaceData ==
  /\ closure.data < MaxData
  /\ Len(closure.wrappers) < MaxRenders
  /\ closure' = render(closure, closure.data + 1)
  /\ UNCHANGED <<loop, log>>
  /\ UNCHANGED storeVars

\* the component renders again with the same props
Rerender ==
  /\ Len(closure.wrappers) < MaxRenders
  /\ closure' = render(closure, closure.data)
  /\ UNCHANGED <<loop, log>>
  /\ UNCHANGED storeVars

NextHook ==
  \/ HandleSearch
  \/ SearchFire
  \/ ReplaceData
  \/ Rerender
  \/ Tick

SpecHook == InitHook /\ [][NextHook]_vars

(***************************************************************************)
(* SpecSearch: the search functions applied to every data array, query and *)
(* options of a small universe.  The call starts with the arguments every  *)
(* function takes; the function called adds the options only it reads.     *)
(***************************************************************************)
MaxRecords == 2   \* longest data array

\* products: one with a category object, one whose category is null, one
\* with a title only
SearchItems ==
  {Obj([title |-> Str(<<"A", "b">>),
        category |-> Obj([name |-> Str(<<"b">>)]),
        price |-> Num(5)]),
   Obj([title |-> Str(<<"a">>), category |-> Null, price |-> Num(15)]),
   Obj([title |-> Str(<<"b", "a">>)])}

Queries == {<<>>, <<"a">>, <<"A">>, <<"b">>, <<"a", "b">>, <<"5">>}

\* keys: { title: "title" }, { category: "category.name" }, ... in the order
\* of Object.entries
KeyMaps ==
  LET titleKey == [searchKey |-> "title", dataPath |-> <<"title">>]
      categoryKey == [searchKey |-> "category",
                      dataPath |-> <<"category", ".", "name">>]
      priceKey == [searchKey |-> "price", dataPath |-> <<"price">>]
  IN {<<>>, <<titleKey>>, <<categoryKey>>, <<priceKey>>,
      <<titleKey, categoryKey>>}

WeightMaps == {<<>>, [category |-> 2]}

HookStrategies == Strategies \cup {"advanced", "ranked", "relevance"}

\* the data argument: an array of at most MaxRecords products, null or
\* undefined
DataValues == {Arr(items) : items \in SeqUpTo(SearchItems, MaxRecords)}
                \cup {Null, Undef}

SearchCalls ==
  {[op |-> "none", data |-> data, query |-> query,
    options |-> [keys |-> keys, caseSensitive |-> caseSensitive,
                 exactMatch |-> exactMatch]] :
     data \in DataValues, query \in Queries,
     keys \in KeyMaps, caseSensitive \in BOOLEAN, exactMatch \in BOOLEAN}

InitSearch ==
  /\ cart = [n \in CartNames |-> initialState]
  /\ localStorage = <<>>
  /\ session = 0
  /\ wishlist = wishlistInitialState
  /\ loop = emptyLoop
  /\ closure = NoClosure
  /\ log = <<>>
  /\ pc = "idle"
  /\ call \in SearchCalls

\* the function returns: call records its options, its result and the data
\* array as it is after the call
Searched(op, options, result, after) ==
  /\ call' = Spread(call, [op |-> op, options |-> options,
                           result |-> result, after |-> after])
  /\ pc' = "called"
  /\ UNCHANGED <<cart, localStorage, session, wishlist>>
  /\ UNCHANGED timerVars

SearchData ==
  /\ Idle
  /\ \E customMatcher \in CustomMatchers :
       LET options == Spread(call.options, [customMatcher |-> customMatcher])
       IN Searched("searchData", options,
                   searchData(call.data, call.query, options), call.data)

AdvancedSearch ==
  /\ Idle
  /\ \/ Searched("advancedSearch", call.options,
                 advancedSearch(call.data, call.query, call.options), call.data)
     \/ \E strategy \in Strategies :
          LET options == Spread(call.options, [strategy |-> strategy])
          IN Searched("advancedSearch", options,
                      advancedSearch(call.data, call.query, options), call.data)

RankedSearch ==
  /\ Idle
  /\ \E weights \in WeightMaps :
       LET options == Spread(call.options, [weights |-> weights])
       IN Searched("rankedSearch", options,
                   rankedSearch(call.data, call.query, options), call.data)

SearchWithHighlight ==
  /\ Idle
  /\ LET r == searchWithHighlight(call.data, call.query, call.options)
     IN Searched("searchWithHighlight", call.options, r.result, r.data)

\* a render of useSearch(data, searchConfig) whose query state is call.query
UseSearch ==
  /\ Idle
  /\ \/ Searched("useSearch", call.options,
                 hookResults(trim(call.query), call.data, call.options),
                 call.data)
     \/ \E strategy \in HookStrategies :
          LET searchConfig == Spread(call.options, [strategy |-> strategy])
          IN Searched("useSearch", searchConfig,
                      hookResults(trim(call.query), call.data, searchConfig),
                      call.data)

NextSearch ==
  \/ SearchData
  \/ AdvancedSearch
  \/ RankedSearch
  \/ SearchWithHighlight
  \/ UseSearch

SpecSearch == InitSearch /\ [][NextSearch]_vars

(***************************************************************************)
(* Claims about the cart store                                             *)
(***************************************************************************)
TheCart == cart[DefaultCart]

RECURSIVE SumQuantity(_)
SumQuantity(items) ==
  IF items = <<>> THEN 0 ELSE Head(items).quantity + SumQuantity(Tail(items))

RECURSIVE SumPrice(_)
SumPrice(items) ==
  IF items = <<>> THEN 0
  ELSE Head(items).price * Head(items).quantity + SumPrice(Tail(items))

TotalsDerived(state) ==
  /\ state.totalItems = SumQuantity(state.items)
  /\ state.totalPrice = SumPrice(state.items)
  /\ state.isEmpty = (Len(state.items) = 0)

\* the positions of the lines of items with the given id
Lines(items, id) == {i \in 1..Len(items) : items[i].id = id}

\* C1: in every reachable state of the cart store, totalItems is the sum of
\* the quantities, totalPrice the sum of price * quantity, and isEmpty is
\* true exactly when there are no items.
C1_TotalsAreDerived == TotalsDerived(TheCart)

C1_Witness ==
  /\ pc = "called"
  /\ call.op = "addItem"
  /\ Lines(call.before.items, call.item.id) # {}
  /\ Len(TheCart.items) >= 2
  /\ TheCart.totalItems >= 3
  /\ TheCart.totalPrice >= 7

\* C2: in every reachable state the item list holds at most one line per id,
\* also after addMultipleItems with a list that repeats an id.
C2_OneLinePerId ==
  \A i, j \in 1..Len(TheCart.items) :
    TheCart.items[i].id = TheCart.items[j].id => i = j

C2_Witness ==
  /\ call.op = "addMultipleItems"
  /\ Len(call.items) = 2
  /\ call.items[1].id = call.items[2].id
  /\ Lines(call.before.items, call.items[1].id) = {}
  /\ Cardinality(Lines(TheCart.items, call.items[1].id)) = 1

\* C3: in every reachable state every line has quantity > 0, whatever integer
\* arguments the operations were called with.
C3_QuantitiesPositive ==
  \A i \in 1..Len(TheCart.items) : TheCart.items[i].quantity > 0

\* C4: addItem(x, 1) followed by addItem(x, 1) leaves exactly one line with
\* x's id, with quantity 2 more than before (2 when x was absent); a new line
\* is appended at the end, an existing line keeps its position, the other
\* lines are unchanged, and the totals are the derived ones after each call.
C4_AddTwice ==
  /\ pc \in {"added1", "added2"} => TotalsDerived(TheCart)
  /\ pc = "added2" =>
       LET b == call.before.items
           its == TheCart.items
           at == Lines(b, call.item.id)
       IN /\ Cardinality(Lines(its, call.item.id)) = 1
          /\ IF at = {}
             THEN /\ Len(its) = Len(b) + 1
                  /\ its[Len(its)].id = call.item.id
                  /\ its[Len(its)].quantity = 2
                  /\ \A j \in 1..Len(b) : its[j] = b[j]
             ELSE /\ Len(its) = Len(b)
                  /\ \A j \in 1..Len(b) :
                       IF j \in at
                       THEN /\ its[j].id = call.item.id
                            /\ its[j].quantity = b[j].quantity + 2
                       ELSE its[j] = b[j]

C4_Witness ==
  /\ pc = "added2"
  /\ Len(call.before.items) >= 2
  /\ call.before.items[1].id = call.item.id
  /\ TheCart.items[1].quantity = call.before.items[1].quantity + 2

\* C5: decrementItem(id, a) on a line with quantity q removes the line when
\* a >= q and leaves it with quantity q - a when a < q; the other lines and
\* their order are unchanged.
C5_Decrement ==
  (pc = "called" /\ call.op = "decrementItem") =>
    LET b == call.before.items
        gone(item) == item.id = call.itemId /\ call.amount >= item.quantity
        stays(item) == ~gone(item)
        rest == SelectSeq(b, stays)
    IN /\ Len(TheCart.items) = Len(rest)
       /\ \A j \in 1..Len(rest) :
            IF rest[j].id = call.itemId
            THEN /\ TheCart.items[j].id = call.itemId
                 /\ TheCart.items[j].price = rest[j].price
                 /\ TheCart.items[j].quantity = rest[j].quantity - call.amount
                 /\ TheCart.items[j].quantity > 0
            ELSE TheCart.items[j] = rest[j]

C5_Witness ==
  /\ pc = "called"
  /\ call.op = "decrementItem"
  /\ Len(call.before.items) >= 2
  /\ \E i \in Lines(call.before.items, call.itemId) :
       call.before.items[i].quantity = call.amount
  /\ Lines(TheCart.items, call.itemId) = {}

\* C6: updateQuantity(id, n) with n <= 0 produces the state removeItem(id)
\* produces; with n > 0 it sets the quantity of the line with that id to
\* exactly n, and leaves the list unchanged when no line has that id.
C6_UpdateQuantity ==
  (pc = "called" /\ call.op = "updateQuantity") =>
    LET b == call.before.items IN
    IF call.quantity <= 0
    THEN /\ TheCart = removeItemState(call.before, call.itemId)
         /\ Lines(TheCart.items, call.itemId) = {}
    ELSE /\ Len(TheCart.items) = Len(b)
         /\ \A j \in 1..Len(b) :
              IF b[j].id = call.itemId
              THEN TheCart.items[j] = [b[j] EXCEPT !.quantity = call.quantity]
              ELSE TheCart.items[j] = b[j]

C6_Witness ==
  /\ pc = "called"
  /\ call.op = "updateQuantity"
  /\ call.quantity > 0
  /\ \E i \in Lines(call.before.items, call.itemId) :
       /\ call.before.items[i].quantity > call.quantity
       /\ TheCart.items[i].quantity = call.quantity

\* the single-item operation applied once per element, in order
RECURSIVE RepeatAddItem(_, _)
RepeatAddItem(state, items) ==
  IF items = <<>> THEN state
  ELSE RepeatAddItem(
         addItemState(state, Head(items),
                      IF "quantity" \in DOMAIN Head(items)
                      THEN Head(items).quantity ELSE 1),
         Tail(items))

RECURSIVE RepeatRemoveItem(_, _)
RepeatRemoveItem(state, itemIds) ==
  IF itemIds = <<>> THEN state
  ELSE RepeatRemoveItem(removeItemState(state, Head(itemIds)), Tail(itemIds))

\* the entries of an updates object, in property order; the keys are strings
entries(updates) ==
  LET own(k) == k \in DOMAIN updates IN SelectSeq(<<"1", "2">>, own)

RECURSIVE RepeatUpdateQuantity(_, _, _)
RepeatUpdateQuantity(state, updates, keys) ==
  IF keys = <<>> THEN state
  ELSE RepeatUpdateQuantity(
         updateQuantityState(state, KeyId(Head(keys)), updates[Head(keys)]),
         updates, Tail(keys))

\* C7: each bulk operation yields the state that the single-item operation,
\* applied once per element in order, yields.
C7_BulkIsRepeatedSingle ==
  pc = "called" =>
    /\ call.op = "addMultipleItems" =>
         TheCart = RepeatAddItem(call.before, call.items)
    /\ call.op = "removeMultipleItems" =>
         TheCart = RepeatRemoveItem(call.before, call.itemIds)
    /\ call.op = "updateMultipleQuantities" =>
         TheCart = RepeatUpdateQuantity(call.before, call.updates,
                                        entries(call.updates))

(***************************************************************************)
(* Claims about persistence                                                *)
(***************************************************************************)
\* a property that is present and does not hold undefined
Defined(o, k) == k \in DOMAIN o /\ ~(k \in StringProps /\ o[k] = Undefined)

ItemProps == {"id", "price", "quantity", "category"}

\* two items that read the same: every property is undefined in both, or
\* holds the same value in both
SameItem(a, b) ==
  \A k \in ItemProps :
    /\ Defined(a, k) <=> Defined(b, k)
    /\ Defined(a, k) => a[k] = b[k]

StateProps == {"totalItems", "totalPrice", "isEmpty"}

\* two { items, totalItems, totalPrice, isEmpty } snapshots that read the same
SameSnapshot(a, b) ==
  /\ \A k \in StateProps \cup {"items"} : k \in DOMAIN a /\ k \in DOMAIN b
  /\ \A k \in StateProps : a[k] = b[k]
  /\ Len(a.items) = Len(b.items)
  /\ \A i \in 1..Len(a.items) : SameItem(a.items[i], b.items[i])

\* C8: after every mutating operation on a persisted cart store the blob under
\* the store's name holds the current { items, totalItems, totalPrice,
\* isEmpty } snapshot, so that a restart at any point rehydrates a state that
\* reads the same as the state before it; an operation on a store with another
\* name leaves the blob unchanged.
C8_PersistedSnapshot ==
  /\ \A name \in CartNames :
       /\ name \in DOMAIN localStorage =>
            SameSnapshot(localStorage[name].state, cart[name])
       /\ SameSnapshot(hydrate(localStorage, name), cart[name])
  /\ (pc = "called" /\ call.op # "restart") =>
       /\ call.store \in DOMAIN localStorage
       /\ \A other \in CartNames \ {call.store} :
            /\ other \in DOMAIN localStorage <=> other \in DOMAIN call.storage
            /\ other \in DOMAIN localStorage =>
                 localStorage[other] = call.storage[other]
  /\ (pc = "called" /\ call.op = "restart") =>
       \A name \in CartNames : SameSnapshot(cart[name], call.carts[name])

C8_Witness ==
  /\ pc = "called"
  /\ call.op = "restart"
  /\ CartNames \subseteq DOMAIN localStorage
  /\ Len(cart[DefaultCart].items) = 2
  /\ Len(cart[CustomCart].items) = 1
  /\ cart[DefaultCart].totalPrice # cart[CustomCart].totalPrice
  /\ \E i \in 1..2 :
       /\ "category" \in DOMAIN call.carts[DefaultCart].items[i]
       /\ "category" \notin DOMAIN cart[DefaultCart].items[i]

(***************************************************************************)
(* Claims about the wishlist store                                         *)
(***************************************************************************)
\* C9: in every reachable wishlist state the item list holds at most one
\* entry per id and totalItems is the list length; addItem of an id that is
\* already present leaves the state unchanged.
C9_WishlistUnique ==
  /\ \A i, j \in 1..Len(wishlist.items) :
       wishlist.items[i].id = wishlist.items[j].id => i = j
  /\ wishlist.totalItems = Len(wishlist.items)
  /\ (/\ pc = "called"
      /\ call.op = "addItem"
      /\ Lines(call.before.items, call.item.id) # {}) => wishlist = call.before

C9_Witness ==
  /\ pc = "called"
  /\ call.op = "addItem"
  /\ Lines(call.before.items, call.item.id) # {}
  /\ Len(wishlist.items) >= 2

\* C10 as stated: for every wishlist state and every item x, toggleItem(x)
\* twice returns the wishlist to its original state and the two calls report
\* added = true, then added = false.
C10_ToggleTwiceRoundTrip ==
  pc = "toggled2" =>
    /\ wishlist = call.before
    /\ call.first = TRUE
    /\ call.second = FALSE

\* C10 as amended: when x is not in the wishlist, toggleItem(x) twice returns
\* the wishlist to its original state and the calls report true, then false;
\* when x is in the wishlist the calls report false, then true, and x ends as
\* the last entry, the other entries keeping their order.
C10_ToggleTwice ==
  pc = "toggled2" =>
    IF Lines(call.before.items, call.item.id) = {}
    THEN /\ wishlist = call.before
         /\ call.first = TRUE
         /\ call.second = FALSE
    ELSE LET other(item) == item.id # call.item.id IN
         /\ wishlist.items =
              Append(SelectSeq(call.before.items, other),
                     Spread(wishlistDefaultItem, call.item))
         /\ wishlist.totalItems = call.before.totalItems
         /\ wishlist.isEmpty = FALSE
         /\ call.first = FALSE
         /\ call.second = TRUE

C10_Witness ==
  /\ pc = "toggled2"
  /\ Lines(call.before.items, call.item.id) = {}
  /\ Len(call.before.items) >= 1
  /\ call.first = TRUE
  /\ call.second = FALSE

\* the wishlist entries with the id the served moveToCart was called with
MovedLines == Lines(call.before.items, call.itemId)

\* C11: moveToCart(id, cb) for an id that is not in the wishlist leaves the
\* wishlist and the cart (and what they persisted) unchanged, does not call
\* cb and returns undefined.
C11_MoveAbsent ==
  (/\ pc = "called"
   /\ call.op = "moveToCart"
   /\ MovedLines = {}) =>
     /\ wishlist = call.before
     /\ cart[DefaultCart] = call.cartBefore
     /\ localStorage = call.storage
     /\ call.callbackArgs = <<>>
     /\ call.returned = <<>>

C11_Witness ==
  /\ pc = "called"
  /\ call.op = "moveToCart"
  /\ call.hasCallback
  /\ MovedLines = {}
  /\ Len(call.before.items) >= 1
  /\ call.returned = <<>>

\* the quantity a cart holds of an id: 0 when it has no line for it
QuantityIn(state, id) ==
  IF Lines(state.items, id) = {} THEN 0
  ELSE state.items[CHOOSE i \in Lines(state.items, id) : TRUE].quantity

\* C12: moveToCart(id, cb) for an id in the wishlist calls cb exactly once,
\* with (that item, 1) and while the item is still in the wishlist, then
\* removes the item and returns it; cb being the cart's addItem, the cart
\* then holds the id with its quantity raised by 1 and the wishlist no
\* longer holds the id.
C12_MovePresent ==
  (/\ pc = "called"
   /\ call.op = "moveToCart"
   /\ call.hasCallback
   /\ MovedLines # {}) =>
     LET item == call.before.items[CHOOSE i \in MovedLines : TRUE] IN
     /\ Len(call.callbackArgs) = 1
     /\ call.callbackArgs[1].item = item
     /\ call.callbackArgs[1].quantity = 1
     /\ Lines(call.callbackArgs[1].wishlist.items, call.itemId) # {}
     /\ call.returned = <<item>>
     /\ Lines(wishlist.items, call.itemId) = {}
     /\ wishlist = wishlistRemoveItemState(call.before, call.itemId)
     /\ Cardinality(Lines(cart[DefaultCart].items, call.itemId)) = 1
     /\ QuantityIn(cart[DefaultCart], call.itemId)
          = QuantityIn(call.cartBefore, call.itemId) + 1

C12_Witness ==
  /\ pc = "called"
  /\ call.op = "moveToCart"
  /\ call.hasCallback
  /\ MovedLines # {}
  /\ QuantityIn(call.cartBefore, call.itemId) = 1
  /\ QuantityIn(cart[DefaultCart], call.itemId) = 2
  /\ Len(call.before.items) >= 2

(***************************************************************************)
(* Claims about debounce and throttle                                      *)
(***************************************************************************)
\* C13: every call of a debounce wrapper cancels the pending invocation and
\* schedules a new one, so func runs only directly after the call that was
\* the last of its burst, delay ticks after it and with its arguments; a
\* call followed by another call before it ran never runs (delay 150 ms,
\* calls at 0, 50, 100 ms with a, b, c: one run, at 250 ms, with c).
C13_Debounce ==
  closure.made =>
    /\ \A i \in 1..Len(log) :
         log[i].type = "run" =>
           /\ i > 1
           /\ log[i - 1].type = "call"
           /\ log[i].args = log[i - 1].args
           /\ log[i].at = log[i - 1].at + closure.delay
    /\ IF log # <<>> /\ log[Len(log)].type = "call"
       THEN /\ Cardinality(loop.timers) = 1
            /\ \A t \in loop.timers :
                 /\ t.due = log[Len(log)].at + closure.delay
                 /\ t.callback.args = log[Len(log)].args
                 /\ t.due >= loop.now
       ELSE loop.timers = {}

C13_Witness ==
  /\ closure.made
  /\ closure.delay = 3
  /\ log = <<[type |-> "call", at |-> 0, args |-> "a"],
             [type |-> "call", at |-> 1, args |-> "b"],
             [type |-> "call", at |-> 2, args |-> "c"],
             [type |-> "run", at |-> 5, args |-> "c"]>>

\* the runs of func before event i of the log
RunsBefore(i) == {j \in 1..(i - 1) : log[j].type = "run"}

LastRunBefore(i) ==
  log[CHOOSE j \in RunsBefore(i) : \A k \in RunsBefore(i) : k <= j]

\* call i of the log made func run, at once
RanAtOnce(i) ==
  /\ i < Len(log)
  /\ log[i + 1] = [type |-> "run", at |-> log[i].at, args |-> log[i].args]

\* C14: the first call of a throttle wrapper runs func at once; a call made
\* before the interval has passed since the last run is ignored and never
\* runs later (func only ever runs within a call); the first call after the
\* interval has passed runs func at once.
C14_Throttle ==
  closure.made =>
    \A i \in 1..Len(log) :
      /\ log[i].type = "run" => i > 1 /\ RanAtOnce(i - 1)
      /\ log[i].type = "call" =>
           IF RunsBefore(i) = {}
           THEN RanAtOnce(i)
           ELSE /\ log[i].at < LastRunBefore(i).at + closure.limit
                     => ~RanAtOnce(i)
                /\ log[i].at > LastRunBefore(i).at + closure.limit
                     => RanAtOnce(i)

C14_Witness ==
  /\ closure.made
  /\ closure.limit = 2
  /\ log = <<[type |-> "call", at |-> 0, args |-> "a"],
             [type |-> "run", at |-> 0, args |-> "a"],
             [type |-> "call", at |-> 1, args |-> "b"],
             [type |-> "call", at |-> 3, args |-> "c"],
             [type |-> "run", at |-> 3, args |-> "c"]>>

(***************************************************************************)
(* Claims about the useSearch hook                                         *)
(***************************************************************************)
\* C15: with debouncing on, every handleSearch call cancels the search an
\* earlier call scheduled, also across the renders the query change causes:
\* a search only runs directly after the call that was the last of its quiet
\* window, debounceDelay after it and for its query.
C15_OnlyFinalCallRuns ==
  (closure.made /\ "wrappers" \in DOMAIN closure) =>
    \A i \in 1..Len(log) :
      log[i].type = "run" =>
        /\ i > 1
        /\ log[i - 1].type = "call"
        /\ log[i].args = log[i - 1].args
        /\ log[i].at = log[i - 1].at + closure.debounceDelay

\* C16: a debounced search that runs after the data prop was replaced runs
\* on the data that is current when it runs.
C16_RunsOnCurrentData ==
  (closure.made /\ "wrappers" \in DOMAIN closure) =>
    \A i \in 1..Len(log) :
      log[i].type = "run" => log[i].data = log[i].current

(***************************************************************************)
(* Claims about the search functions                                       *)
(***************************************************************************)
SearchFunctions ==
  {"searchData", "advancedSearch", "rankedSearch", "searchWithHighlight"}

\* C17: for every non-empty data array, every options value and the empty
\* query, each of the four search functions returns the records unchanged:
\* the same records, in the same order, with the same field values.
C17_EmptyQueryIdentity ==
  (/\ pc = "called"
   /\ call.op \in SearchFunctions
   /\ call.query = <<>>
   /\ isArray(call.data)
   /\ call.data.v # <<>>) => call.result = call.data

\* C18: no search function changes its input: after the call the data array
\* and every record in it, nested objects under a dotted path included, hold
\* what they held before the call.
C18_InputNotMutated ==
  (pc = "called" /\ call.op \in SearchFunctions) => call.after = call.data

\* the query and a string folded as the served call's caseSensitive says
Folded(s) == IF call.options.caseSensitive THEN s ELSE toLowerCase(s)

\* a mapped key of the served call accepts the record: its value is there
\* and, as a folded string, equals (exactMatch) or contains the folded query
KeyAccepts(item, entry) ==
  LET value == getNestedValue(item, entry.dataPath) IN
  /\ ~nullish(value)
  /\ IF call.options.exactMatch
     THEN Folded(String(value)) = Folded(call.query)
     ELSE stringIncludes(Folded(String(value)), Folded(call.query))

SomeKeyAccepts(item) ==
  \E k \in 1..Len(call.options.keys) : KeyAccepts(item, call.options.keys[k])

\* the custom matcher of the served call returns true for the record
MatcherAccepts(item) ==
  /\ call.options.customMatcher # "null"
  /\ customMatcherResult(call.options.customMatcher, item, Folded(call.query),
                         call.options)

KeptAsStated(item) == MatcherAccepts(item) \/ SomeKeyAccepts(item)

KeptByMatcherElseKeys(item) ==
  IF call.options.customMatcher # "null"
  THEN MatcherAccepts(item)
  ELSE SomeKeyAccepts(item)

SearchDataServed ==
  /\ pc = "called"
  /\ call.op = "searchData"
  /\ isArray(call.data)
  /\ call.query # <<>>
  /\ call.options.keys # <<>>

\* C19 as stated: for a non-empty query and a non-empty key-map, searchData
\* keeps a record if and only if the custom matcher returns true for it or a
\* mapped key accepts it; the kept records stay in input order.
C19_MatcherOrKeys ==
  SearchDataServed => call.result = Arr(SelectSeq(call.data.v, KeptAsStated))

\* C19 as amended: for a non-empty query and a non-empty key-map, searchData
\* given a custom matcher keeps a record if and only if the matcher returns
\* true for it, whatever its keys hold; given none, it keeps a record if and
\* only if a mapped key accepts it (a missing or null value never does); the
\* kept records stay in input order.
C19_MatcherElseKeys ==
  SearchDataServed =>
    call.result = Arr(SelectSeq(call.data.v, KeptByMatcherElseKeys))

C19_Witness ==
  /\ SearchDataServed
  /\ call.options.customMatcher = "never"
  /\ call.options.exactMatch
  /\ Len(call.data.v) = 2
  /\ \A i \in 1..Len(call.data.v) : SomeKeyAccepts(call.data.v[i])
  /\ call.result = Arr(<<>>)

\* C20: useSearch configured with exactMatch = true and no strategy returns
\* the records of which a mapped key's normalized value equals the
\* normalized query: what searchData returns for the same options.
C20_HookHonoursExactMatch ==
  (/\ pc = "called"
   /\ call.op = "useSearch"
   /\ isArray(call.data)
   /\ call.options.exactMatch
   /\ "strategy" \notin DOMAIN call.options) =>
     /\ ~call.result.threw
     /\ call.result.value = searchData(call.data, call.query, call.options)

\* C21: advancedSearch gates as searchData does: for every data array, every
\* strategy and a non-empty query, an empty key-map makes it return the
\* records unchanged.
C21_EmptyKeysIdentity ==
  (/\ pc = "called"
   /\ call.op = "advancedSearch"
   /\ isArray(call.data)
   /\ call.query # <<>>
   /\ call.options.keys = <<>>) => call.result = call.data

\* C22: given a data argument that is not an array, searchData,
\* advancedSearch and rankedSearch return an empty array for every query (none
\* of them raises).
C22_NonArrayGivesEmpty ==
  (/\ pc = "called"
   /\ call.op \in {"searchData", "advancedSearch", "rankedSearch"}
   /\ ~isArray(call.data)) => call.result = Arr(<<>>)

\* C30: performSearch raises for no strategy: for a non-empty query over a
\* non-empty data array it returns a result, and for a strategy other than
\* advanced, ranked, contains, startsWith, endsWith, fuzzy and regex that
\* result is the one of searchData(data, query, options).
C30_UnknownStrategyFallsBack ==
  (/\ pc = "called"
   /\ call.op = "useSearch"
   /\ isArray(call.data)
   /\ call.data.v # <<>>
   /\ trim(call.query) # <<>>) =>
     /\ ~call.result.threw
     /\ ("strategy" \in DOMAIN call.options
           /\ call.options.strategy \notin Strategies \cup {"advanced", "ranked"})
          => call.result.value
               = searchData(call.data, call.query, call.options)

(***************************************************************************)
(* SpecFuzzy: fuzzyMatch applied to every text and pattern of at most      *)
(* MaxText characters over a two-letter alphabet.                          *)
(***************************************************************************)
MaxText == 4

FuzzyCalls ==
  {[op |-> "none", text |-> text, pattern |-> pattern] :
     text \in SeqUpTo({"a", "b"}, MaxText),
     pattern \in SeqUpTo({"a", "b"}, MaxText)}

InitFuzzy ==
  /\ cart = [n \in CartNames |-> initialState]
  /\ localStorage = <<>>
  /\ session = 0
  /\ wishlist = wishlistInitialState
  /\ loop = emptyLoop
  /\ closure = NoClosure
  /\ log = <<>>
  /\ pc = "idle"
  /\ call \in FuzzyCalls

FuzzyMatch ==
  /\ Idle
  /\ call' = Spread(call, [op |-> "fuzzyMatch",
                           result |-> fuzzyMatch(call.text, call.pattern)])
  /\ pc' = "called"
  /\ UNCHANGED <<cart, localStorage, session, wishlist>>
  /\ UNCHANGED timerVars

NextFuzzy == FuzzyMatch

SpecFuzzy == InitFuzzy /\ [][NextFuzzy]_vars

\* the characters of text at the positions in S, in order
Chosen(text, S) ==
  LET positions == SelectSeq([i \in 1..Len(text) |-> i], LAMBDA i : i \in S)
  IN [k \in 1..Len(positions) |-> text[positions[k]]]

\* the characters of pattern occur in text in order, not necessarily side
\* by side
IsSubsequence(pattern, text) ==
  \E S \in SUBSET (1..Len(text)) : Chosen(text, S) = pattern

\* C23: for non-empty text and pattern, fuzzyMatch(text, pattern) is 0 when
\* pattern is not an in-order subsequence of text, and is greater than 0 and
\* at most 1 when it is.
C23_FuzzyScore ==
  (/\ pc = "called"
   /\ call.op = "fuzzyMatch"
   /\ call.text # <<>>
   /\ call.pattern # <<>>) =>
     IF IsSubsequence(call.pattern, call.text)
     THEN call.result.num > 0 /\ call.result.num <= call.result.den
     ELSE call.result.num = 0

\* a pattern found in order but not side by side
C23_Witness ==
  /\ pc = "called"
  /\ call.op = "fuzzyMatch"
  /\ call.text = <<"a", "b", "a">>
  /\ call.pattern = <<"a", "a">>
  /\ indexOf(call.text, call.pattern) = -1
  /\ call.result = [num |-> 2, den |-> 2]

(***************************************************************************)
(* Claims about rankedSearch                                               *)
(***************************************************************************)
RankedServed ==
  /\ pc = "called"
  /\ call.op = "rankedSearch"
  /\ isArray(call.data)
  /\ call.query # <<>>

\* the folded value under a mapped key is there and contains the folded query
KeyContains(item, entry) ==
  LET value == getNestedValue(item, entry.dataPath) IN
  /\ ~nullish(value)
  /\ stringIncludes(Folded(String(value)), Folded(call.query))

\* the mapped keys of the served call that match the record
MatchingKeys(item) ==
  {k \in 1..Len(call.options.keys) : KeyContains(item, call.options.keys[k])}

\* the match scores of the keys in K, each times its weight, added up
RECURSIVE WeightedTotal(_, _)
WeightedTotal(item, K) ==
  IF K = {} THEN [num |-> 0, den |-> 1]
  ELSE LET k == CHOOSE x \in K : TRUE
           entry == call.options.keys[k]
           score == calculateMatchScore(
                      Folded(String(getNestedValue(item, entry.dataPath))),
                      Folded(call.query))
           weight == IF entry.searchKey \in DOMAIN call.options.weights
                     THEN call.options.weights[entry.searchKey]
                     ELSE 1
       IN plus([num |-> score.num * weight, den |-> score.den],
               WeightedTotal(item, K \ {k}))

\* weighted total divided by match count, for a record with a matching key
RecordScore(item) ==
  LET total == WeightedTotal(item, MatchingKeys(item))
  IN [num |-> total.num, den |-> total.den * Cardinality(MatchingKeys(item))]

\* C24: for a non-empty query the output of rankedSearch holds exactly the
\* records with at least one matching key, each once per occurrence in the
\* input, in the order of non-increasing score (weighted total divided by
\* match count); records of equal score keep their input order.
C24_RankedOrder ==
  RankedServed =>
    LET data == call.data.v
        result == call.result.v
        matching == {i \in 1..Len(data) : MatchingKeys(data[i]) # {}}
    IN /\ isArray(call.result)
       /\ \E from \in [1..Len(result) -> matching] :
            /\ \A i \in matching : \E r \in 1..Len(result) : from[r] = i
            /\ \A r \in 1..Len(result) : result[r] = data[from[r]]
            /\ \A r, q \in 1..Len(result) :
                 r < q =>
                   LET a == RecordScore(data[from[r]])
                       b == RecordScore(data[from[q]])
                   IN \/ greater(a, b)
                      \/ atLeast(a, b) /\ from[r] < from[q]

\* two different records of the same score, returned in input order, the
\* first of them matching on two keys
C24_Witness ==
  /\ RankedServed
  /\ Len(call.data.v) = 2
  /\ call.data.v[1] # call.data.v[2]
  /\ call.result = call.data
  /\ Cardinality(MatchingKeys(call.data.v[1])) = 2
  /\ atLeast(RecordScore(call.data.v[1]), RecordScore(call.data.v[2]))
  /\ atLeast(RecordScore(call.data.v[2]), RecordScore(call.data.v[1]))

(***************************************************************************)
(* useFilterSort: the filteredData of a render, from the data array and    *)
(* the filter state.  A category name is a Str value; a bound of the price *)
(* range is the text of a number input, '' when it is not set.             *)
(***************************************************************************)
NaN == [t |-> "NaN"]
isNaN(n) == n.t = "NaN"

\* Number(value): null is 0, '' is 0, a string of digits is its value, any
\* other string, undefined and an object are NaN
Number(value) ==
  LET DigitOf == [c \in {"0", "1", "2", "3", "4", "5", "6", "7", "8", "9"} |->
                   CASE c = "0" -> 0 [] c = "1" -> 1 [] c = "2" -> 2
                     [] c = "3" -> 3 [] c = "4" -> 4 [] c = "5" -> 5
                     [] c = "6" -> 6 [] c = "7" -> 7 [] c = "8" -> 8
                     [] OTHER -> 9]
      RECURSIVE valueOf(_, _)
      valueOf(s, acc) ==
        IF s = <<>> THEN Num(acc)
        ELSE IF Head(s) \in DOMAIN DigitOf
             THEN valueOf(Tail(s), 10 * acc + DigitOf[Head(s)])
             ELSE NaN
  IN CASE value.t = "number" -> value
       [] value.t = "null" -> Num(0)
       [] value.t = "string" -> valueOf(value.v, 0)
       [] OTHER -> NaN

\* filteredData whose first test takes an array of one record for empty
filteredDataGateOne(data, selectedCategories, priceRange) ==
  LET keep(item) ==
        LET category == IF nullish(item) THEN Undef ELSE get(item, "category")
            itemCategory ==
              IF nullish(category) THEN Undef ELSE get(category, "name")
            price ==
              Number(IF nullish(item) THEN Undef ELSE get(item, "price"))
            min == Number(Str(priceRange.min))
            max == Number(Str(priceRange.max))
        IN /\ Len(selectedCategories) > 0 =>
                /\ ~falsy(itemCategory)
                /\ \E i \in 1..Len(selectedCategories) :
                     selectedCategories[i] = itemCategory
           /\ ~isNaN(price) =>
                /\ ~(priceRange.min # <<>> /\ ~isNaN(min) /\ price.v < min.v)
                /\ ~(priceRange.max # <<>> /\ ~isNaN(max) /\ price.v > max.v)
  IN IF ~isArray(data) \/ Len(data.v) <= 1 THEN Arr(<<>>)
     ELSE Arr(SelectSeq(data.v, keep))

\* filteredData: data.filter(item => ...) under the filter state; a
\* comparison with NaN is false
filteredData(data, selectedCategories, priceRange) ==
  LET keep(item) ==
        LET category == IF nullish(item) THEN Undef ELSE get(item, "category")
            itemCategory ==
              IF nullish(category) THEN Undef ELSE get(category, "name")
            price ==
              Number(IF nullish(item) THEN Undef ELSE get(item, "price"))
            min == Number(Str(priceRange.min))
            max == Number(Str(priceRange.max))
        IN /\ Len(selectedCategories) > 0 =>
                /\ ~falsy(itemCategory)
                /\ \E i \in 1..Len(selectedCategories) :
                     selectedCategories[i] = itemCategory
           /\ ~isNaN(price) =>
                /\ ~(priceRange.min # <<>> /\ ~isNaN(min) /\ price.v < min.v)
                /\ ~(priceRange.max # <<>> /\ ~isNaN(max) /\ price.v > max.v)
  IN IF ~isArray(data) \/ Len(data.v) = 0 THEN Arr(<<>>)
     ELSE Arr(SelectSeq(data.v, keep))

(***************************************************************************)
(* SpecFilter: filteredData computed for every data array and filter state *)
(* of a small universe, and computed again on its own result.              *)
(***************************************************************************)
\* products: priced 5 and 15 in two categories, one without a category, one
\* without a price (Number(undefined) is NaN), one whose price is null
FilterItems ==
  LET x == Obj([name |-> Str(<<"x">>)])
      y == Obj([name |-> Str(<<"y">>)])
  IN {Obj([category |-> x, price |-> Num(5)]),
      Obj([category |-> y, price |-> Num(15)]),
      Obj([price |-> Num(10)]),
      Obj([category |-> x]),
      Obj([category |-> y, price |-> Null])}

CategoryFilters ==
  {<<>>, <<Str(<<"x">>)>>, <<Str(<<"y">>)>>, <<Str(<<"x">>), Str(<<"y">>)>>}

PriceBounds == {<<>>, <<"8">>, <<"1", "2">>}

FilterCalls ==
  {[op |-> "none", data |-> data, selectedCategories |-> selectedCategories,
    priceRange |-> [min |-> min, max |-> max]] :
     data \in {Arr(items) : items \in SeqUpTo(FilterItems, MaxRecords)}
                \cup {Null},
     selectedCategories \in CategoryFilters,
     min \in PriceBounds, max \in PriceBounds}

InitFilter ==
  /\ cart = [n \in CartNames |-> initialState]
  /\ localStorage = <<>>
  /\ session = 0
  /\ wishlist = wishlistInitialState
  /\ loop = emptyLoop
  /\ closure = NoClosure
  /\ log = <<>>
  /\ pc = "idle"
  /\ call \in FilterCalls

\* a render computes filteredData; `again` is filteredData of a hook that is
\* given that result as its data, under the same filter state
FilteredData ==
  /\ Idle
  /\ LET result == filteredData(call.data, call.selectedCategories,
                                call.priceRange)
     IN call' = Spread(call,
                  [op |-> "filteredData", result |-> result,
                   again |-> filteredData(result, call.selectedCategories,
                                          call.priceRange)])
  /\ pc' = "called"
  /\ UNCHANGED <<cart, localStorage, session, wishlist>>
  /\ UNCHANGED timerVars

NextFilter == FilteredData

SpecFilter == InitFilter /\ [][NextFilter]_vars

Filtered == pc = "called" /\ call.op = "filteredData"

\* the price of a record as a number, NaN when it is none
PriceAsNumber(item) == Number(get(item, "price"))

\* the category name of a record is among the selected ones
CategorySelected(item) ==
  /\ get(item, "category").t = "object"
  /\ \E i \in 1..Len(call.selectedCategories) :
       call.selectedCategories[i] = get(get(item, "category"), "name")

\* the price test as stated: a numeric price lies within the bounds that are
\* set, a non-numeric price passes only when no bound is set
PriceWithinBounds(item) ==
  LET price == PriceAsNumber(item) IN
  IF isNaN(price)
  THEN call.priceRange.min = <<>> /\ call.priceRange.max = <<>>
  ELSE /\ call.priceRange.min = <<>>
            \/ price.v >= Number(Str(call.priceRange.min)).v
       /\ call.priceRange.max = <<>>
            \/ price.v <= Number(Str(call.priceRange.max)).v

PassesAsStated(item) ==
  /\ call.selectedCategories = <<>> \/ CategorySelected(item)
  /\ PriceWithinBounds(item)

\* C25: filteredData holds, in input order, exactly the records that pass:
\* (no category is selected or the record's category name is selected) and
\* (min is empty or price >= min) and (max is empty or price <= max), where a
\* record with a non-numeric price passes the price test only when neither
\* bound is set and a record without a category fails every non-empty
\* category filter; min > max gives a result and no error.
C25_FilterPredicate ==
  (Filtered /\ isArray(call.data)) =>
    call.result = Arr(SelectSeq(call.data.v, PassesAsStated))

\* C26: the filter is idempotent: applied to its own result under the same
\* filter state it returns that result.
C26_FilterIdempotent == Filtered => call.again = call.result

\* both filters are set, two records came in and one of them is kept
C26_Witness ==
  /\ Filtered
  /\ call.selectedCategories # <<>>
  /\ call.priceRange.min # <<>>
  /\ isArray(call.data)
  /\ Len(call.data.v) = 2
  /\ Len(call.result.v) = 1
  /\ call.again = call.result

(***************************************************************************)
(* cartUtils: validateCartItem and validateCartState.  A call returns      *)
(* [threw |-> FALSE, value |-> {isValid, errors, warnings}] or, when it    *)
(* reads a property of null or undefined, [threw |-> TRUE] (a TypeError).  *)
(* A message is the sequence of its parts.                                 *)
(***************************************************************************)
Bool(b) == [t |-> "boolean", b |-> b]

\* typeof value
typeof(value) == IF value.t \in {"null", "array"} THEN "object" ELSE value.t

validateCartItem(item) ==
  LET check(failed, message) == IF failed THEN <<message>> ELSE <<>>
      id == get(item, "id")
      title == get(item, "title")
      price == get(item, "price")
      quantity == get(item, "quantity")
      image == get(item, "image")
      errors ==
        check(falsy(id), <<"Item ID is required">>)
        \o check(falsy(title) \/ typeof(title) # "string",
                 <<"Item title is required and must be a string">>)
        \o check(typeof(price) # "number" \/ price.v < 0,
                 <<"Item price must be a non-negative number">>)
        \o check(typeof(quantity) # "number" \/ quantity.v <= 0,
                 <<"Item quantity must be a positive number">>)
      warnings ==
        check(~falsy(image) /\ typeof(image) # "string",
              <<"Item image should be a string URL">>)
  IN IF nullish(item) THEN [threw |-> TRUE]
     ELSE [threw |-> FALSE,
           value |-> [isValid |-> Len(errors) = 0, errors |-> errors,
                      warnings |-> warnings]]

\* a + b and a * b on numbers: NaN when an operand is undefined or NaN
sum(a, b) ==
  IF isNaN(Number(a)) \/ isNaN(Number(b)) THEN NaN
  ELSE Num(Number(a).v + Number(b).v)

product(a, b) ==
  IF isNaN(Number(a)) \/ isNaN(Number(b)) THEN NaN
  ELSE Num(Number(a).v * Number(b).v)

\* calculateCartTotals(items) with no options: total is the subtotal; the
\* items are objects
calculateCartTotals(items) ==
  LET RECURSIVE reduce(_, _, _)
      reduce(acc, i, byPrice) ==
        IF i > Len(items) THEN acc
        ELSE reduce(sum(acc, IF byPrice
                             THEN product(get(items[i], "price"),
                                          get(items[i], "quantity"))
                             ELSE get(items[i], "quantity")),
                    i + 1, byPrice)
  IN [total |-> reduce(Num(0), 1, TRUE),
      itemCount |-> reduce(Num(0), 1, FALSE)]

\* errors.join(', ')
RECURSIVE join(_)
join(messages) ==
  IF messages = <<>> THEN <<>>
  ELSE IF Len(messages) = 1 THEN messages[1]
  ELSE messages[1] \o <<", ">> \o join(Tail(messages))

\* the forEach of validateCartState over the items from index i on (the
\* index of the first item is 0); it ends when validateCartItem throws
RECURSIVE validateItems(_, _, _)
validateItems(acc, items, i) ==
  IF i >= Len(items) THEN acc
  ELSE LET itemValidation == validateCartItem(items[i + 1])
           label == <<"Item ">> \o numberToString(i) \o <<": ">>
       IN IF itemValidation.threw THEN [threw |-> TRUE]
          ELSE validateItems(
                 [threw |-> FALSE,
                  errors |->
                    IF itemValidation.value.isValid THEN acc.errors
                    ELSE Append(acc.errors,
                                label \o join(itemValidation.value.errors)),
                  warnings |->
                    acc.warnings
                    \o [w \in 1..Len(itemValidation.value.warnings) |->
                          label \o itemValidation.value.warnings[w]]],
                 items, i + 1)

validateCartState(cartState) ==
  LET items == get(cartState, "items")
      totalItems == get(cartState, "totalItems")
      totalPrice == get(cartState, "totalPrice")
      isEmpty == get(cartState, "isEmpty")
      each == validateItems([threw |-> FALSE, errors |-> <<>>,
                             warnings |-> <<>>], items.v, 0)
      calculatedTotals == calculateCartTotals(items.v)
      difference == sum(totalPrice, product(Num(-1), calculatedTotals.total))
      errors ==
        each.errors
        \o (IF typeof(totalItems) = "number"
               /\ ~isNaN(calculatedTotals.itemCount)
               /\ totalItems.v = calculatedTotals.itemCount.v
            THEN <<>>
            ELSE <<<<"Total items mismatch">>>>)
        \o (IF ~isNaN(difference) /\ difference.v # 0
            THEN <<<<"Total price mismatch">>>>
            ELSE <<>>)
      warnings ==
        each.warnings
        \o (IF isEmpty = Bool(Len(items.v) = 0) THEN <<>>
            ELSE <<<<"Empty state inconsistency">>>>)
  IN IF nullish(cartState) THEN [threw |-> TRUE]
     ELSE IF ~isArray(items)
     THEN [threw |-> FALSE,
           value |-> [isValid |-> FALSE,
                      errors |-> <<<<"Items must be an array">>>>,
                      warnings |-> <<>>]]
     ELSE IF each.threw THEN [threw |-> TRUE]
     ELSE [threw |-> FALSE,
           value |-> [isValid |-> Len(errors) = 0, errors |-> errors,
                      warnings |-> warnings]]

(***************************************************************************)
(* SpecValidate: the two validators applied to every value of a small      *)
(* universe of items and cart states.                                      *)
(***************************************************************************)
\* null, undefined, an object without fields, a valid line, a line whose
\* quantity is 0 and whose image is no string
ValidateItems ==
  {Null, Undef, Obj(<<>>),
   Obj([id |-> Num(1), title |-> Str(<<"a">>), price |-> Num(5),
        quantity |-> Num(2)]),
   Obj([id |-> Num(2), title |-> Str(<<"b">>), price |-> Num(3),
        quantity |-> Num(0), image |-> Bool(TRUE)])}

\* states whose items is an array (null entries included), null or missing
ValidateStates ==
  {Obj([items |-> Arr(items), totalItems |-> Num(totalItems),
        totalPrice |-> Num(totalPrice), isEmpty |-> Bool(isEmpty)]) :
     items \in SeqUpTo(ValidateItems, MaxRecords), totalItems \in {0, 2},
     totalPrice \in {0, 10}, isEmpty \in BOOLEAN}
    \cup {Obj([items |-> Null])}

InitValidate ==
  /\ cart = [n \in CartNames |-> initialState]
  /\ localStorage = <<>>
  /\ session = 0
  /\ wishlist = wishlistInitialState
  /\ loop = emptyLoop
  /\ closure = NoClosure
  /\ log = <<>>
  /\ pc = "idle"
  /\ call \in {[op |-> "none", arg |-> arg] :
                 arg \in ValidateItems \cup ValidateStates}

ValidateCartItem ==
  /\ Idle
  /\ call' = Spread(call, [op |-> "validateCartItem",
                           result |-> validateCartItem(call.arg)])
  /\ pc' = "called"
  /\ UNCHANGED <<cart, localStorage, session, wishlist>>
  /\ UNCHANGED timerVars

ValidateCartState ==
  /\ Idle
  /\ call' = Spread(call, [op |-> "validateCartState",
                           result |-> validateCartState(call.arg)])
  /\ pc' = "called"
  /\ UNCHANGED <<cart, localStorage, session, wishlist>>
  /\ UNCHANGED timerVars

NextValidate ==
  \/ ValidateCartItem
  \/ ValidateCartState

SpecValidate == InitValidate /\ [][NextValidate]_vars

\* C27: validateCartItem and validateCartState throw for no input, null,
\* undefined, an item lacking fields and a state whose items is no array or
\* holds null entries included: each returns {isValid, errors, warnings},
\* with isValid false and a failure in errors for such an input.
C27_ValidatorsNeverThrow ==
  (pc = "called" /\ call.op \in {"validateCartItem", "validateCartState"}) =>
    /\ ~call.result.threw
    /\ DOMAIN call.result.value = {"isValid", "errors", "warnings"}
    /\ call.result.value.isValid = (call.result.value.errors = <<>>)
    /\ (\/ nullish(call.arg)
        \/ call.arg = Obj(<<>>)
        \/ ~isArray(get(call.arg, "items")) /\ call.op = "validateCartState")
         => ~call.result.value.isValid

(***************************************************************************)
(* ProductCard and WishlistDisplay: the click handlers of a card showing   *)
(* the product `data` and of a wishlist row showing `item`.  A component   *)
(* is rendered again after every change of a store, so a handler reads the *)
(* stores as they are when it runs.  The toasts and the isAdding flag      *)
(* change nothing the stores hold.                                         *)
(***************************************************************************)
\* get().items.some(cartItem => cartItem.id === itemId)
isItemInCart(state, itemId) ==
  \E i \in 1..Len(state.items) : state.items[i].id = itemId

\* getItemQuantity(itemId): the quantity of the line, 0 when there is none
getItemQuantity(state, itemId) ==
  LET at == findIndex(state.items, itemId)
  IN IF at > 0 THEN state.items[at].quantity ELSE 0

\* cartItem and wishlistItem built from data: the fields the stores use
cardItem(data) == [id |-> data.id, price |-> data.price]

\* handleAddToCart without the test of the wishlist
handleAddToCartUnguarded(cartState, wishlistState, data) ==
  addItemState(cartState, cardItem(data), 1)

\* the cart after handleAddToCart: nothing is added while the product is in
\* the wishlist
handleAddToCart(cartState, wishlistState, data) ==
  IF isItemInWishlist(wishlistState, data.id)
  THEN cartState
  ELSE addItemState(cartState, cardItem(data), 1)

\* the cart after handleDecrement: the last unit removes the line
handleDecrement(cartState, data) ==
  IF getItemQuantity(cartState, data.id) > 1
  THEN decrementItemState(cartState, data.id, 1)
  ELSE removeItemState(cartState, data.id)

\* the wishlist after handleToggleWishlist: nothing is toggled while the
\* product is in the cart
handleToggleWishlist(cartState, wishlistState, data) ==
  IF isItemInCart(cartState, data.id)
  THEN wishlistState
  ELSE toggleItemResult(wishlistState, cardItem(data)).state

(***************************************************************************)
(* SpecCard: clicks on the cards of the products and on the rows of the    *)
(* wishlist display, in any order, from empty stores.                      *)
(***************************************************************************)
\* the handler that ran and the product it ran for; a store is set by the
\* handlers that get past their test, and only then written to storage
Clicked(op, id) ==
  /\ call' = [op |-> op, id |-> id]
  /\ pc' = pc
  /\ UNCHANGED <<session, loop, closure, log>>

HandleAddToCart ==
  /\ Idle
  /\ \E data \in Products :
       /\ LET next == handleAddToCart(cart[DefaultCart], wishlist, data)
          IN IF next = cart[DefaultCart]
             THEN UNCHANGED <<cart, localStorage>>
             ELSE persistSet(DefaultCart, next)
       /\ Clicked("handleAddToCart", data.id)
  /\ UNCHANGED wishlist

HandleIncrement ==
  /\ Idle
  /\ \E data \in Products :
       /\ incrementItem(DefaultCart, data.id, 1)
       /\ Clicked("handleIncrement", data.id)
  /\ UNCHANGED wishlist

HandleDecrement ==
  /\ Idle
  /\ \E data \in Products :
       /\ persistSet(DefaultCart, handleDecrement(cart[DefaultCart], data))
       /\ Clicked("handleDecrement", data.id)
  /\ UNCHANGED wishlist

HandleToggleWishlist ==
  /\ Idle
  /\ \E data \in Products :
       /\ LET next == handleToggleWishlist(cart[DefaultCart], wishlist, data)
          IN IF next = wishlist
             THEN UNCHANGED <<wishlist, localStorage>>
             ELSE wishlistPersistSet(next)
       /\ Clicked("handleToggleWishlist", data.id)
  /\ UNCHANGED cart

\* the row of a wishlist item: moveToCart(item.id, addItem)
HandleMoveToCart ==
  /\ Idle
  /\ \E i \in 1..Len(wishlist.items) :
       moveToCart(wishlist.items[i].id, TRUE)
  /\ pc' = pc
  /\ UNCHANGED <<session, loop, closure, log>>

HandleRemoveFromWishlist ==
  /\ Idle
  /\ \E i \in 1..Len(wishlist.items) :
       /\ wishlistPersistSet(
            wishlistRemoveItemState(wishlist, wishlist.items[i].id))
       /\ Clicked("handleRemoveFromWishlist", wishlist.items[i].id)
  /\ UNCHANGED cart

NextCard ==
  \/ HandleAddToCart
  \/ HandleIncrement
  \/ HandleDecrement
  \/ HandleToggleWishlist
  \/ HandleMoveToCart
  \/ HandleRemoveFromWishlist

SpecCard == Init /\ [][NextCard]_vars

\* C28: from an empty cart and an empty wishlist, whatever the card and the
\* wishlist display are clicked, no product id is in the cart and in the
\* wishlist at the same time.
C28_CartWishlistDisjoint ==
  \A i \in 1..Len(TheCart.items), j \in 1..Len(wishlist.items) :
    TheCart.items[i].id # wishlist.items[j].id

\* a product was moved from the wishlist to the cart, where it is one line
\* of two, and another product is still in the wishlist
C28_Witness ==
  /\ call.op = "moveToCart"
  /\ isItemInCart(TheCart, call.itemId)
  /\ ~isItemInWishlist(wishlist, call.itemId)
  /\ Len(TheCart.items) = 2
  /\ Len(wishlist.items) = 1

(***************************************************************************)
(* The item objects behind the cart's arrays.  A caller that read          *)
(* get().items before a call holds an array of references: reference i is  *)
(* the object of line i.  `objects` is what each reference holds after the *)
(* call (objects made by the call come after the n that were there), and   *)
(* updatedItems is the array of references the call hands to set().        *)
(***************************************************************************)
\* addItem: updatedItems = [...state.items] holds the same objects, and the
\* existing-line branch assigns to the quantity of one of them
addItemObjects(state, item, quantity) ==
  LET n == Len(state.items)
      existingItemIndex == findIndex(state.items, item.id)
      newItem == Spread(Spread(defaultItem, item), [quantity |-> quantity])
  IN IF existingItemIndex > 0
     THEN [objects |-> [state.items EXCEPT ![existingItemIndex] =
                          Spread(@, [quantity |-> @.quantity + quantity])],
           updatedItems |-> [i \in 1..n |-> i]]
     ELSE [objects |-> Append(state.items, newItem),
           updatedItems |-> [i \in 1..(n + 1) |-> i]]

\* incrementItem: map returns a new object { ...item, quantity } for a line
\* of the id and the object itself for any other line
incrementItemObjects(state, itemId, amount) ==
  LET n == Len(state.items)
      hit(i) == state.items[i].id = itemId
      hits == SelectSeq([i \in 1..n |-> i], hit)
      made(i) == CHOOSE k \in 1..Len(hits) : hits[k] = i
  IN [objects |->
        state.items
        \o [k \in 1..Len(hits) |->
              Spread(state.items[hits[k]],
                     [quantity |-> state.items[hits[k]].quantity + amount])],
      updatedItems |-> [i \in 1..n |-> IF hit(i) THEN n + made(i) ELSE i]]

\* items.forEach body of addMultipleItems on the references: a line found is
\* assigned to through its reference, a line not found is a new object
RECURSIVE addMultipleObjects(_, _)
addMultipleObjects(acc, items) ==
  IF items = <<>> THEN acc
  ELSE LET item == Head(items)
           lines == [k \in 1..Len(acc.updatedItems) |->
                      acc.objects[acc.updatedItems[k]]]
           existingItemIndex == findIndex(lines, item.id)
           next ==
             IF existingItemIndex > 0
             THEN [objects |->
                     [acc.objects EXCEPT ![acc.updatedItems[existingItemIndex]] =
                        Spread(@, [quantity |-> @.quantity + quantityOr1(item)])],
                   updatedItems |-> acc.updatedItems]
             ELSE [objects |->
                     Append(acc.objects,
                            Spread(Spread(defaultItem, item),
                                   [quantity |-> quantityOr1(item)])),
                   updatedItems |->
                     Append(acc.updatedItems, Len(acc.objects) + 1)]
       IN addMultipleObjects(next, Tail(items))

\* addMultipleItems: updatedItems = [...state.items], then the forEach
addMultipleItemsObjects(state, items) ==
  addMultipleObjects([objects |-> state.items,
                      updatedItems |-> [i \in 1..Len(state.items) |-> i]],
                     items)

\* the lines the array of references holds
linesOf(r) == [k \in 1..Len(r.updatedItems) |-> r.objects[r.updatedItems[k]]]

(***************************************************************************)
(* SpecAlias: a caller reads get().items, calls addItem, addMultipleItems  *)
(* or incrementItem on the default cart and reads its array again: `read`  *)
(* is what the array it holds shows after the call, `installed` the lines  *)
(* of the array handed to set().                                           *)
(***************************************************************************)
ReadAgain(c, r) ==
  Calls(Spread(c, [read |-> SubSeq(r.objects, 1, Len(cart[DefaultCart].items)),
                   installed |-> linesOf(r)]))

AddItemAfterRead ==
  /\ Idle
  /\ \E item \in Products, quantity \in QtyArgs :
       /\ addItem(DefaultCart, item, quantity)
       /\ ReadAgain([op |-> "addItem", item |-> item, quantity |-> quantity],
                    addItemObjects(cart[DefaultCart], item, quantity))

IncrementItemAfterRead ==
  /\ Idle
  /\ \E itemId \in Ids, amount \in QtyArgs :
       /\ incrementItem(DefaultCart, itemId, amount)
       /\ ReadAgain([op |-> "incrementItem", itemId |-> itemId,
                     amount |-> amount],
                    incrementItemObjects(cart[DefaultCart], itemId, amount))

AddMultipleItemsAfterRead ==
  /\ Idle
  /\ \E items \in SeqUpTo(BulkItems, MaxBulk) :
       /\ addMultipleItems(DefaultCart, items)
       /\ ReadAgain([op |-> "addMultipleItems", items |-> items],
                    addMultipleItemsObjects(cart[DefaultCart], items))

NextAlias ==
  \/ AddItemAfterRead
  \/ IncrementItemAfterRead
  \/ AddMultipleItemsAfterRead
  \/ Return

SpecAlias == Init /\ [][NextAlias]_vars

\* the array handed to set() holds the lines of the state that is installed
InstalledIsNewState ==
  pc = "called" => call.installed = TheCart.items

\* C29: a cart operation changes no snapshot taken before it: the items
\* array a caller read before addItem, addMultipleItems or incrementItem, and
\* the item records in it, hold the same values after the call; the new
\* quantity is in the new state only.
C29_SnapshotUnchanged ==
  (pc = "called"
     /\ call.op \in {"addItem", "addMultipleItems", "incrementItem"}) =>
    call.read = call.before.items

====
